---- MODULE Spec2Model ----
(***************************************************************************)
(* Adaptive tiling search of the embedded server                           *)
(* (src/public/nodejs/index.js): one traversal of adaptiveTilingSearch     *)
(* against a provider whose answers are the environment's choice, the     *)
(* child-tile geometry of its subdivision step, and the request handler    *)
(* of /api/places/adaptive serving requests that interleave at every step. *)
(*                                                                         *)
(* Numbers are fixed point.  Latitudes and longitudes are micro-degrees,   *)
(* radii are 1/RadiusUnit metres (so that MAX_DEPTH halvings of a whole    *)
(* number of metres are exact, as they are in IEEE doubles), distances     *)
(* that are compared are whole metres.                                     *)
(***************************************************************************)
EXTENDS Integers, Sequences, FiniteSets, TLC

\* ------------------------------------------------------------------------
\* Program constants
\* ------------------------------------------------------------------------
MIN_RADIUS == 500
MAX_DEPTH == 5
MAX_API_CALLS == 200
maxResultCount == 20
OVERLAP_TENTHS == 7
METRES_PER_DEGREE == 111320

\* ------------------------------------------------------------------------
\* Bounds of the model
\* ------------------------------------------------------------------------
\* Under the "free" provider the first MaxFreeCalls answers are arbitrary.
MaxFreeCalls == 5

\* ------------------------------------------------------------------------
\* Fixed point
\* ------------------------------------------------------------------------
RadiusUnit == 2 ^ MAX_DEPTH
Metres(m) == m * RadiusUnit
Abs(x) == IF x < 0 THEN 0 - x ELSE x

\* Math.cos(lat * Math.PI / 180), scaled by 10^4: the Taylor polynomial of
\* degree 6 in the angle (radians scaled by 10^4), accurate to 2 units for
\* |lat| <= 70 degrees.
CosE4(latMicro) ==
    LET m  == Abs(latMicro) \div 1000
        x  == (m * 17453) \div 100000
        x2 == (x * x) \div 10000
        x4 == (x2 * x2) \div 10000
        x6 == (x4 * x2) \div 10000
    IN  10000 - (x2 \div 2) + (x4 \div 24) - (x6 \div 720)

\* childRadius * factor / 111320, in micro-degrees, childRadius in radius
\* units: childRadius/RadiusUnit * (tenths/10) / 111320 * 10^6.
OffsetMicro(childRadius, tenths) ==
    (childRadius * ((tenths * 100000) \div 160))
        \div ((METRES_PER_DEGREE * RadiusUnit) \div 160)

\* offset / Math.cos(tile.lat * Math.PI / 180)
LngOffsetMicro_noCos(offset, latMicro) == offset
LngOffsetMicro(offset, latMicro) == (offset * 10000) \div CosE4(latMicro)

\* ------------------------------------------------------------------------
\* Tiles and subdivision (index.js 133-142)
\* ------------------------------------------------------------------------
Tile(lat, lng, radius, depth) ==
    [lat |-> lat, lng |-> lng, radius |-> radius, depth |-> depth]

\* The four children pushed for a tile, in push order, for an overlap
\* factor given in tenths.
ChildrenWith(t, tenths) ==
    LET childRadius == t.radius \div 2
        offset      == OffsetMicro(childRadius, tenths)
        lngOffset   == LngOffsetMicro(offset, t.lat)
    IN  << Tile(t.lat + offset, t.lng - lngOffset, childRadius, t.depth + 1),
           Tile(t.lat + offset, t.lng + lngOffset, childRadius, t.depth + 1),
           Tile(t.lat - offset, t.lng - lngOffset, childRadius, t.depth + 1),
           Tile(t.lat - offset, t.lng + lngOffset, childRadius, t.depth + 1) >>

Children_lopsided(t) ==
    [i \in 1..4 |-> IF i = 3 THEN ChildrenWith(t, OVERLAP_TENTHS)[1]
                    ELSE ChildrenWith(t, OVERLAP_TENTHS)[i]]
Children_wide(t) == ChildrenWith(t, 8)
Children(t) == ChildrenWith(t, OVERLAP_TENTHS)

\* places.length >= 20 && tile.radius > MIN_RADIUS && tile.depth < MAX_DEPTH
ShouldSubdivide_noDepth(count, t) ==
    count >= 20 /\ t.radius > Metres(MIN_RADIUS)
ShouldSubdivide_childRadius(count, t) ==
    count >= 20 /\ t.radius \div 2 > Metres(MIN_RADIUS) /\ t.depth < MAX_DEPTH
ShouldSubdivide_ge19(count, t) ==
    count >= 19 /\ t.radius > Metres(MIN_RADIUS) /\ t.depth < MAX_DEPTH
ShouldSubdivide_geRadius(count, t) ==
    count >= 20 /\ t.radius >= Metres(MIN_RADIUS) /\ t.depth < MAX_DEPTH
ShouldSubdivide(count, t) ==
    count >= 20 /\ t.radius > Metres(MIN_RADIUS) /\ t.depth < MAX_DEPTH

\* ------------------------------------------------------------------------
\* Distances in whole metres, 111320 m per degree of latitude and the
\* cosine-corrected degree of longitude at latitude refLat.
\* ------------------------------------------------------------------------
MicroToMetres(d) == (d * (METRES_PER_DEGREE \div 10)) \div 100000
NorthMetres(p, q) == MicroToMetres(Abs(p.lat - q.lat))
EastMetres(p, q, refLat) ==
    MicroToMetres((Abs(p.lng - q.lng) * CosE4(refLat)) \div 10000)
DistSq(p, q, refLat) ==
    NorthMetres(p, q) * NorthMetres(p, q)
        + EastMetres(p, q, refLat) * EastMetres(p, q, refLat)
WholeMetres(radius) == radius \div RadiusUnit
\* Point p lies in the disc of tile t.
InDisc(p, t, refLat) ==
    DistSq(p, t, refLat) <= WholeMetres(t.radius) * WholeMetres(t.radius)

\* ------------------------------------------------------------------------
\* Provider answers (searchNearby, index.js 70-98)
\* ------------------------------------------------------------------------
\* An optional field of a provider place is a sequence of length 0 or 1.
OrZero(opt) == IF opt = <<>> THEN 0 ELSE opt[1]

Place(id, name, rating, reviews) ==
    [id |-> id, displayName |-> name, rating |-> rating,
     userRatingCount |-> reviews]

\* Places with ids lo..hi sharing their other attributes.
MkPlaces(lo, hi, name, rating, reviews) ==
    [i \in 1..(hi - lo + 1) |-> Place(lo + i - 1, name, rating, reviews)]

Ok(places) == [ok |-> TRUE, places |-> places]
\* searchNearby throws: no API key, transport error or the request timeout
RespFail == [ok |-> FALSE, places |-> <<>>]
\* `response.places || []` of a body without places
RespEmpty == Ok(<<>>)
RespTwo == Ok(MkPlaces(1, 2, <<"B">>, <<45>>, <<120>>))
RespNineteen == Ok(MkPlaces(2, maxResultCount, <<>>, <<>>, <<>>))
RespFull == Ok(MkPlaces(1, maxResultCount, <<"A">>, <<40>>, <<50>>))
\* The request carries maxResultCount, so no answer is longer.
Responses == {RespFail, RespEmpty, RespTwo, RespNineteen, RespFull}

Providers == {"stub", "cycle", "hotspot", "free"}

\* What the provider may answer to call number n for tile t.
\*   stub     reports truncation on every query
\*   cycle    every eighth answer fails, every eighth has 19 places, the
\*            others are truncated
\*   hotspot  truncated exactly for the tiles whose disc holds the centre
\*            of the search (a dense cluster there), two places otherwise
\*   free     anything for the first MaxFreeCalls calls, nothing after
ProviderAnswers(p, t, n, centre) ==
    CASE p = "stub" -> {RespFull}
      [] p = "cycle" -> {IF n % 8 = 0 THEN RespFail
                         ELSE IF n % 8 = 4 THEN RespNineteen ELSE RespFull}
      [] p = "hotspot" -> {IF InDisc(centre, t, t.lat) THEN RespFull
                           ELSE RespTwo}
      [] OTHER -> IF n <= MaxFreeCalls THEN Responses ELSE {RespEmpty}

\* ------------------------------------------------------------------------
\* Registry (seenPlaces, a Map in insertion order; index.js 116-130)
\* ------------------------------------------------------------------------
Has(reg, id) == \E i \in 1..Len(reg) : reg[i].id = id

Record(place) ==
    [id |-> place.id,
     name |-> IF place.displayName = <<>> THEN "Unknown"
              ELSE place.displayName[1],
     rating |-> OrZero(place.rating),
     reviewCount |-> OrZero(place.userRatingCount)]

InsertPlace_overwrite(reg, place) ==
    IF Has(reg, place.id)
    THEN [i \in 1..Len(reg) |->
            IF reg[i].id = place.id THEN Record(place) ELSE reg[i]]
    ELSE Append(reg, Record(place))
InsertPlace(reg, place) ==
    IF Has(reg, place.id) THEN reg ELSE Append(reg, Record(place))

\* for (const place of places) ...: one iteration, then the rest.  The
\* registry after the iteration is bound as a value before going on.
RECURSIVE InsertAll(_, _)
InsertAll(reg, places) ==
    IF places = <<>> THEN reg
    ELSE CHOOSE out \in {InsertAll(r, Tail(places)) :
                            r \in {InsertPlace(reg, Head(places))}} : TRUE

\* ------------------------------------------------------------------------
\* State
\* ------------------------------------------------------------------------
VARIABLES
    args,        \* lat, lng, radiusMeters of the call
    provider,    \* the provider's behaviour (environment)
    queue,       \* work queue of tiles
    apiCalls,    \* call counter
    seenPlaces,  \* registry, records in insertion order
    pc,          \* "loop" | "await" | "done" ("idle": no traversal)
    tile,        \* <<t>> while t's query is outstanding, else <<>>
    result,      \* <<returned value>> once returned
    issued,      \* history: searchNearby invocations so far
    last,        \* history: <<[tile, resp]>> of the tile processed last
    sightings,   \* history: distinct places returned, in order of return
    queried,     \* history: the tiles shifted off the queue so far
    answered,    \* history: searchNearby calls resolved or rejected so far
    uQueue,      \* the queue of the same run without the call budget
    uCalls,      \* the call counter of the run without the call budget
    gParent,     \* geometry: the parent tile
    gChildren,   \* geometry: its children, <<>> before subdivision
    apiKey,      \* server: TRUE once the key is configured (null before)
    rateLimitStore, \* server: <<[count, windowStart]>> of 'local', or <<>>
    now,         \* server: Date.now() of the latest request, in ms
    req,         \* server: query parameters of request 1..n
    hpc,         \* server: "new" | "search" | "done" per request
    hloc,        \* server: the handler's locals per request
    trav,        \* server: the locals of the request's running traversal
    res,         \* server: <<response>> per request once sent
    shist,       \* server: history per request (calls, traversals, places)
    limiterStore, \* limiter: rateLimitStore of rateLimiter.js, per IP
    lNow,        \* limiter: Date.now() of the Express process, in ms
    lLast,       \* limiter: <<outcome>> of the latest middleware call
    lHist,       \* limiter: history per IP, <<[first, total]>> of the
                 \* requests since the first one of the window
    healthLog,   \* the /health requests answered so far, by either server
    svcCall,     \* services: <<[fn, ...arguments]>> of the call made
    svcRet       \* services: <<outcome>> of that call

travVars == <<args, provider, queue, apiCalls, seenPlaces, pc, tile, result,
              issued, last, sightings, queried, answered, uQueue, uCalls>>
geomVars == <<gParent, gChildren>>
srvVars == <<apiKey, rateLimitStore, now, req, hpc, hloc, trav, res, shist>>
limVars == <<limiterStore, lNow, lLast, lHist, healthLog>>
svcVars == <<svcCall, svcRet>>
vars == <<args, provider, queue, apiCalls, seenPlaces, pc, tile, result,
          issued, last, sightings, queried, answered, uQueue, uCalls,
          gParent, gChildren,
          apiKey, rateLimitStore, now, req, hpc, hloc, trav, res, shist,
          limiterStore, lNow, lLast, lHist, healthLog, svcCall, svcRet>>

\* ------------------------------------------------------------------------
\* Inputs
\* ------------------------------------------------------------------------
Lats == {0, 32085300, 0 - 60000000}
Lngs == {34781800}
RadiiMetres == {500, 1000, 4000, 4001, 15000, 20000}

\* ------------------------------------------------------------------------
\* adaptiveTilingSearch (index.js 101-152)
\* ------------------------------------------------------------------------
\* while (queue.length > 0 && apiCalls < 200)
LoopCond_le(q, n) == Len(q) > 0 /\ n <= MAX_API_CALLS
LoopCond(q, n) == Len(q) > 0 /\ n < MAX_API_CALLS

\* The queue after the catch block: nothing is pushed.
OnFailure_retry(q, t) == Append(q, t)
OnFailure(q, t) == q

\* History: append the places not yet recorded with these attributes.
RECURSIVE AppendNew(_, _)
AppendNew(seen, places) ==
    IF places = <<>> THEN seen
    ELSE CHOOSE out \in
            {AppendNew(r, Tail(places)) :
                r \in {IF \E i \in 1..Len(seen) : seen[i] = Head(places)
                       THEN seen ELSE Append(seen, Head(places))}} : TRUE

TravIdle ==
    /\ args = [lat |-> 0, lng |-> 0, radius |-> 0]
    /\ provider = "stub"
    /\ queue = <<>>
    /\ apiCalls = 0
    /\ seenPlaces = <<>>
    /\ pc = "idle"
    /\ tile = <<>>
    /\ result = <<>>
    /\ issued = 0
    /\ last = <<>>
    /\ sightings = <<>>
    /\ queried = {}
    /\ answered = 0
    /\ uQueue = <<>>
    /\ uCalls = 0

GeomIdle ==
    /\ gParent = Tile(0, 0, 0, 0)
    /\ gChildren = <<>>

\* The Express process has served nothing, and no service call is made.
IPs == {"a", "b", "unknown"}
LimIdle ==
    /\ limiterStore = [ip \in IPs |-> <<>>]
    /\ lNow = 0
    /\ lLast = <<>>
    /\ lHist = [ip \in IPs |-> <<>>]
    /\ healthLog = [s \in {"express", "embedded"} |-> <<>>]
SvcIdle ==
    /\ svcCall = <<>>
    /\ svcRet = <<>>

\* The server has no request.
SrvIdle ==
    /\ apiKey = FALSE
    /\ rateLimitStore = <<>>
    /\ now = 0
    /\ req = <<>>
    /\ hpc = <<>>
    /\ hloc = <<>>
    /\ trav = <<>>
    /\ res = <<>>
    /\ shist = <<>>

\* const queue = [{ lat, lng, radius: radiusMeters, depth: 0 }]; apiCalls = 0
TravInit ==
    \E lat \in Lats, lng \in Lngs, r \in RadiiMetres, p \in Providers :
        /\ args = [lat |-> lat, lng |-> lng, radius |-> Metres(r)]
        /\ provider = p
        /\ queue = << Tile(lat, lng, Metres(r), 0) >>
        /\ apiCalls = 0
        /\ seenPlaces = <<>>
        /\ pc = "loop"
        /\ tile = <<>>
        /\ result = <<>>
        /\ issued = 0
        /\ last = <<>>
        /\ sightings = <<>>
        /\ queried = {}
        /\ answered = 0
        /\ uQueue = << Tile(lat, lng, Metres(r), 0) >>
        /\ uCalls = 0

\* Loop test passes: shift the tile, count the call, call searchNearby.
Dequeue_noAwait ==
    /\ pc \in {"loop", "await"}
    /\ LoopCond(queue, apiCalls)
    /\ tile' = << Head(queue) >>
    /\ queue' = Tail(queue)
    /\ apiCalls' = apiCalls + 1
    /\ issued' = issued + 1
    /\ queried' = queried \cup {Head(queue)}
    /\ uQueue' = Tail(uQueue)
    /\ uCalls' = uCalls + 1
    /\ pc' = "await"
    /\ UNCHANGED <<args, provider, seenPlaces, result, last, sightings,
                   answered>>
    /\ UNCHANGED geomVars
    /\ UNCHANGED srvVars
    /\ UNCHANGED <<limVars, svcVars>>
Dequeue_pop ==
    /\ pc = "loop"
    /\ LoopCond(queue, apiCalls)
    /\ tile' = << queue[Len(queue)] >>
    /\ queue' = SubSeq(queue, 1, Len(queue) - 1)
    /\ apiCalls' = apiCalls + 1
    /\ issued' = issued + 1
    /\ queried' = queried \cup {queue[Len(queue)]}
    /\ uQueue' = Tail(uQueue)
    /\ uCalls' = uCalls + 1
    /\ pc' = "await"
    /\ UNCHANGED <<args, provider, seenPlaces, result, last, sightings,
                   answered>>
    /\ UNCHANGED geomVars
    /\ UNCHANGED srvVars
    /\ UNCHANGED <<limVars, svcVars>>
Dequeue ==
    /\ pc = "loop"
    /\ LoopCond(queue, apiCalls)
    /\ tile' = << Head(queue) >>
    /\ queue' = Tail(queue)
    /\ apiCalls' = apiCalls + 1
    /\ issued' = issued + 1
    /\ queried' = queried \cup {Head(queue)}
    /\ uQueue' = Tail(uQueue)
    /\ uCalls' = uCalls + 1
    /\ pc' = "await"
    /\ UNCHANGED <<args, provider, seenPlaces, result, last, sightings,
                   answered>>
    /\ UNCHANGED geomVars
    /\ UNCHANGED srvVars
    /\ UNCHANGED <<limVars, svcVars>>

\* searchNearby resolves: record the places, subdivide if truncated.
QueryOk ==
    /\ pc = "await"
    /\ \E resp \in ProviderAnswers(provider, tile[1], apiCalls, args) :
        /\ resp.ok
        /\ seenPlaces' = InsertAll(seenPlaces, resp.places)
        /\ queue' = IF ShouldSubdivide(Len(resp.places), tile[1])
                    THEN queue \o Children(tile[1])
                    ELSE queue
        /\ last' = << [tile |-> tile[1], resp |-> resp] >>
        /\ sightings' = AppendNew(sightings, resp.places)
        /\ uQueue' = IF ShouldSubdivide(Len(resp.places), tile[1])
                     THEN uQueue \o Children(tile[1])
                     ELSE uQueue
    /\ answered' = answered + 1
    /\ tile' = <<>>
    /\ pc' = "loop"
    /\ UNCHANGED <<args, provider, apiCalls, result, issued, queried, uCalls>>
    /\ UNCHANGED geomVars
    /\ UNCHANGED srvVars
    /\ UNCHANGED <<limVars, svcVars>>

\* searchNearby throws: the catch block logs and the loop goes on.
QueryFail ==
    /\ pc = "await"
    /\ \E resp \in ProviderAnswers(provider, tile[1], apiCalls, args) :
        /\ ~resp.ok
        /\ last' = << [tile |-> tile[1], resp |-> resp] >>
    /\ queue' = OnFailure(queue, tile[1])
    /\ answered' = answered + 1
    /\ tile' = <<>>
    /\ pc' = "loop"
    /\ UNCHANGED <<args, provider, apiCalls, seenPlaces, result, issued,
                   sightings, queried, uQueue, uCalls>>
    /\ UNCHANGED geomVars
    /\ UNCHANGED srvVars
    /\ UNCHANGED <<limVars, svcVars>>

\* Loop test fails: return { places, metrics }.
Return ==
    /\ pc = "loop"
    /\ ~LoopCond(queue, apiCalls)
    /\ result' = << [places |-> seenPlaces,
                     metrics |-> [apiCalls |-> apiCalls,
                                  uniquePlaces |-> Len(seenPlaces)]] >>
    /\ pc' = "done"
    /\ UNCHANGED <<args, provider, queue, apiCalls, seenPlaces, tile, issued,
                   last, sightings, queried, answered, uQueue, uCalls>>
    /\ UNCHANGED geomVars
    /\ UNCHANGED srvVars
    /\ UNCHANGED <<limVars, svcVars>>

Init == TravInit /\ GeomIdle /\ SrvIdle /\ LimIdle /\ SvcIdle
Next == Dequeue \/ QueryOk \/ QueryFail \/ Return
Spec == Init /\ [][Next]_vars
\* Every provider call resolves or rejects (the request timeout of
\* httpsRequest) and the event loop resumes the traversal.
FairSpec == Spec /\ WF_vars(Next)

\* The same loop without the budget test: while (queue.length > 0).
LoopCondUnlimited(q) == Len(q) > 0

\* Once the traversal has returned, the run without the budget goes on
\* from where the budget cut it: one whole iteration on the same provider.
UnlimitedStep ==
    /\ pc = "done"
    /\ LoopCondUnlimited(uQueue)
    /\ \E resp \in ProviderAnswers(provider, Head(uQueue), uCalls + 1, args) :
          uQueue' = IF resp.ok /\ ShouldSubdivide(Len(resp.places),
                                                  Head(uQueue))
                    THEN Tail(uQueue) \o Children(Head(uQueue))
                    ELSE Tail(uQueue)
    /\ uCalls' = uCalls + 1
    /\ UNCHANGED <<args, provider, queue, apiCalls, seenPlaces, pc, tile,
                   result, issued, last, sightings, queried, answered>>
    /\ UNCHANGED geomVars
    /\ UNCHANGED srvVars
    /\ UNCHANGED <<limVars, svcVars>>

NextUnlimited == Next \/ UnlimitedStep
SpecUnlimited == Init /\ [][NextUnlimited]_vars

\* ------------------------------------------------------------------------
\* Properties of one traversal
\* ------------------------------------------------------------------------
\* The tile processed last, its answer, and whether it got children.
LastTile == last[1].tile
LastCount == Len(last[1].resp.places)
Processed == last /= <<>> /\ pc \in {"loop", "done"}

\* C1: the call counter never exceeds maxCalls (200), it counts exactly the
\* searchNearby invocations, and once it equals maxCalls no further
\* searchNearby invocation happens in the traversal.
C1_BudgetNeverExceeded ==
    /\ [](apiCalls <= MAX_API_CALLS /\ issued = apiCalls)
    /\ [][apiCalls = MAX_API_CALLS => issued' = issued]_vars
\* The budget ran out on a failing call with tiles still queued.
C1_Witness ==
    /\ pc = "done" /\ apiCalls = MAX_API_CALLS /\ Len(queue) > 0
    /\ ~last[1].resp.ok

\* C2: when a tile's query completes, its four children are appended to
\* the queue iff the answer has exactly maxResultCount (20) places, the
\* tile's radius exceeds MIN_RADIUS (500 m) and its depth is below
\* MAX_DEPTH (5); otherwise the queue is left as it is.
C2_SubdivisionRule ==
    [][pc = "await" =>
        LET t == tile[1]
            resp == last'[1].resp
        IN  IF /\ resp.ok
               /\ Len(resp.places) = maxResultCount
               /\ t.radius > Metres(MIN_RADIUS)
               /\ t.depth < MAX_DEPTH
            THEN queue' = queue \o Children(t)
            ELSE queue' = queue]_vars
\* A truncated answer for a large, shallow tile has just been processed
\* and the four children are at the back of the queue.
C2_Witness ==
    /\ Processed /\ pc = "loop"
    /\ LastCount = maxResultCount
    /\ LastTile.radius > Metres(MIN_RADIUS) /\ LastTile.depth < MAX_DEPTH
    /\ Len(queue) >= 4
    /\ SubSeq(queue, Len(queue) - 3, Len(queue)) = Children(LastTile)

\* C6 as stated: against the stub that always reports truncation a
\* traversal issues exactly MAX_API_CALLS calls, whatever the initial tile.
C6_StubAlwaysExhausts ==
    (pc = "done" /\ provider = "stub") => issued = MAX_API_CALLS

\* C6 amended: a traversal issues at most MAX_API_CALLS calls; against the
\* stub it issues exactly MAX_API_CALLS when the initial radius exceeds
\* 8 * MIN_RADIUS (4000 m), so that the tiles of depth 0..3 are all
\* subdivided and 1 + 4 + 16 + 64 + 256 >= 200 tiles exist.
C6_StubExhaustsFromLargeTile ==
    pc = "done" =>
        /\ issued <= MAX_API_CALLS
        /\ result[1].metrics.apiCalls = issued
        /\ (provider = "stub" /\ args.radius > Metres(8 * MIN_RADIUS))
              => issued = MAX_API_CALLS
\* The stub run from a 4001 m tile has returned.
C6_Witness ==
    /\ pc = "done" /\ provider = "stub"
    /\ args.radius = Metres(4001)
    /\ result[1].metrics.apiCalls = MAX_API_CALLS

\* The place returned first with a given identity.
FirstSighting(id) ==
    sightings[CHOOSE k \in 1..Len(sightings) :
                /\ sightings[k].id = id
                /\ \A j \in 1..(k - 1) : sightings[j].id /= id]

\* C7: the registry holds exactly one record per identity returned by a
\* successfully queried tile, built from the place returned first with that
\* identity, and a record once stored is never changed or moved.
C7_FirstWriteWins ==
    /\ [](/\ \A i, j \in 1..Len(seenPlaces) :
                seenPlaces[i].id = seenPlaces[j].id => i = j
          /\ {seenPlaces[i].id : i \in 1..Len(seenPlaces)}
                = {sightings[k].id : k \in 1..Len(sightings)}
          /\ \A i \in 1..Len(seenPlaces) :
                seenPlaces[i] = Record(FirstSighting(seenPlaces[i].id))
          /\ (pc = "done" => result[1].places = seenPlaces))
    /\ [][\A i \in 1..Len(seenPlaces) :
            Len(seenPlaces') >= i /\ seenPlaces'[i] = seenPlaces[i]]_vars
\* The traversal has returned after two tiles returned the same identity
\* with different attributes.
C7_Witness ==
    /\ pc = "done"
    /\ \E k, j \in 1..Len(sightings) :
          k < j /\ sightings[k].id = sightings[j].id
                /\ Record(sightings[k]) /= Record(sightings[j])

\* C8: when the query for a tile fails, the call stays counted, the
\* registry and the queue are left as they are (no child, no retry), the
\* traversal neither returns nor throws but goes back to the loop test, and
\* the next tile queried is the head of the queue.
C8_FailureIsSwallowed ==
    /\ [][(pc = "await" /\ ~last'[1].resp.ok) =>
            /\ apiCalls' = apiCalls /\ issued' = issued
            /\ apiCalls = issued /\ apiCalls >= 1
            /\ seenPlaces' = seenPlaces
            /\ queue' = queue
            /\ tile' = <<>>
            /\ pc' = "loop" /\ result' = <<>>]_vars
    /\ [][(pc = "loop" /\ last /= <<>> /\ ~last[1].resp.ok
             /\ Len(queue) > 0 /\ apiCalls < MAX_API_CALLS) =>
            tile' = << Head(queue) >> /\ pc' = "await"]_vars
\* After a failed query, with places already recorded, the next tile is
\* being queried.
C8_Witness ==
    /\ pc = "await"
    /\ last /= <<>> /\ ~last[1].resp.ok
    /\ seenPlaces /= <<>>
    /\ Len(queue) > 0

\* C9: every traversal returns; it returns with the queue empty or the
\* budget used up, and the value returned is the registry as it stands
\* with the metrics, the tiles still queued being left behind.
C9_Terminates ==
    /\ <>(pc = "done")
    /\ [](pc = "done" =>
            /\ queue = <<>> \/ apiCalls = MAX_API_CALLS
            /\ result = << [places |-> seenPlaces,
                            metrics |-> [apiCalls |-> apiCalls,
                                         uniquePlaces |-> Len(seenPlaces)]] >>)
\* Returned on an exhausted budget with tiles left and a partial registry,
\* after failing and non-truncated answers.
C9_Witness ==
    /\ pc = "done" /\ result /= <<>>
    /\ apiCalls = MAX_API_CALLS
    /\ Len(queue) > 0
    /\ Len(result[1].places) > 0
    /\ provider = "cycle"

\* C10: a tile of depth MAX_DEPTH gets no children whatever the answer, and
\* no tile deeper than MAX_DEPTH is ever queued or queried.
C10_DepthBound ==
    /\ [][(pc = "await" /\ tile[1].depth = MAX_DEPTH) => queue' = queue]_vars
    /\ [](/\ \A i \in 1..Len(queue) : queue[i].depth <= MAX_DEPTH
          /\ \A i \in 1..Len(tile) : tile[i].depth <= MAX_DEPTH)
\* A tile of depth MAX_DEPTH, wider than MIN_RADIUS, got a truncated answer.
C10_Witness ==
    /\ Processed
    /\ LastTile.depth = MAX_DEPTH
    /\ LastTile.radius > Metres(MIN_RADIUS)
    /\ LastCount = maxResultCount

\* C11: a tile whose radius is at most MIN_RADIUS (500 m) is never
\* subdivided, whatever its answer and depth: its query leaves the queue as
\* it was. This includes an initial tile of at most 500 m.
C11_RadiusFloor ==
    [][(pc = "await" /\ tile[1].radius <= Metres(MIN_RADIUS))
          => queue' = queue]_vars
\* A child of a 1000 m tile, of exactly 500 m, got a truncated answer.
C11_Witness ==
    /\ Processed /\ last[1].resp.ok
    /\ LastTile.radius = Metres(MIN_RADIUS)
    /\ LastTile.depth = 1
    /\ LastCount = maxResultCount

\* C12: tiles are queried in the order they were enqueued: the loop takes
\* the head of the queue and children are appended at its back. So the
\* depths along the queue never decrease, the tile being queried is never
\* deeper than a queued one, and the depths of successively queried tiles
\* never decrease.
C12_FifoOrder ==
    /\ [][(pc = "loop" /\ pc' = "await")
            => /\ tile' = << Head(queue) >>
               /\ queue' = Tail(queue)
               /\ last /= <<>> => LastTile.depth <= Head(queue).depth]_vars
    /\ [][pc = "await"
            => /\ Len(queue') >= Len(queue)
               /\ SubSeq(queue', 1, Len(queue)) = queue]_vars
    /\ [](/\ \A i \in 1..(Len(queue) - 1) :
               queue[i].depth <= queue[i + 1].depth
          /\ \A i \in 1..Len(tile), j \in 1..Len(queue) :
               tile[i].depth <= queue[j].depth)
\* A depth-1 tile is being queried while depth-1 tiles wait ahead of
\* depth-2 tiles, after another depth-1 tile was queried.
C12_Witness ==
    /\ pc = "await" /\ tile[1].depth = 1
    /\ last /= <<>> /\ LastTile.depth = 1
    /\ Len(queue) >= 2
    /\ Head(queue).depth = 1
    /\ queue[Len(queue)].depth = 2

\* C14: let N be the number of queries the same traversal makes against
\* the same provider without the budget test. The call count the traversal
\* returns is min(N, maxCalls), and the counter is never maxCalls + 1, not
\* even while the last budgeted query is in flight.
C14_CountIsMinOfUnlimited ==
    /\ apiCalls /= MAX_API_CALLS + 1
    /\ (pc = "done" /\ ~LoopCondUnlimited(uQueue))
          => result[1].metrics.apiCalls =
                IF uCalls < MAX_API_CALLS THEN uCalls ELSE MAX_API_CALLS
\* The run without the budget has ended after more than maxCalls queries.
C14_Witness ==
    /\ pc = "done" /\ ~LoopCondUnlimited(uQueue)
    /\ uCalls > MAX_API_CALLS
    /\ result[1].metrics.apiCalls = MAX_API_CALLS

\* C15: a traversal returns with tiles still in its queue iff the call
\* count it reports is maxCalls (200); a traversal that emptied its queue
\* reports another count. At every loop test the calls made plus the tiles
\* queued are one more than a multiple of four, which is why the queue
\* cannot run empty on call 200.
C15_ExhaustionVisibleInMetrics ==
    /\ pc = "done"
          => (Len(queue) > 0 <=> result[1].metrics.apiCalls = MAX_API_CALLS)
    /\ pc \in {"loop", "done"} => (apiCalls + Len(queue)) % 4 = 1
\* The traversal returned on the budget, leaving tiles behind, after an
\* answer that was not a failure.
C15_Witness ==
    /\ pc = "done" /\ Len(queue) > 0
    /\ result[1].metrics.apiCalls = MAX_API_CALLS
    /\ last[1].resp.ok

\* C16: every tile is shifted off the queue and queried at most once: the
\* tile taken was never taken before, a tile that was taken is not in the
\* queue again, no tile is queued twice, and there are as many queries as
\* tiles taken. Queued tiles are never modified: a step either removes the
\* head or keeps every entry and may append new ones.
C16_TileQueriedOnce ==
    /\ [][(pc = "loop" /\ pc' = "await") => ~(tile'[1] \in queried)]_vars
    /\ [][IF Len(queue') < Len(queue) THEN queue' = Tail(queue)
          ELSE SubSeq(queue', 1, Len(queue)) = queue]_vars
    /\ [](/\ {queue[i] : i \in 1..Len(queue)} \cap queried = {}
          /\ Cardinality({queue[i] : i \in 1..Len(queue)}) = Len(queue)
          /\ Cardinality(queried) = issued
          /\ \A i \in 1..Len(tile) : tile[i] \in queried)
\* A query failed and the traversal went on with other tiles queued.
C16_Witness ==
    /\ Processed /\ ~last[1].resp.ok
    /\ LastTile \in queried
    /\ Len(queue) > 0
    /\ Cardinality(queried) >= 2

\* C18: within one traversal at most one provider query is outstanding. A
\* tile is taken only when every query issued so far has completed and its
\* answer has been applied; the only step taken while a query is in flight
\* is that query's completion, so the loop test (queue and budget) is
\* evaluated only between tiles and the traversal returns with no query
\* left in flight.
C18_OneOutstandingQuery ==
    /\ [](/\ issued - answered \in {0, 1}
          /\ issued - answered = Len(tile)
          /\ (issued - answered = 1) <=> (pc = "await")
          /\ pc = "done" => issued = answered)
    /\ [][issued' /= issued
            => /\ issued = answered /\ pc = "loop"
               /\ LoopCond(queue, apiCalls)]_vars
    /\ [][pc = "await"
            => /\ answered' = answered + 1 /\ issued' = issued
               /\ pc' = "loop" /\ apiCalls' = apiCalls]_vars
    /\ [][(pc /= "done" /\ pc' = "done")
            => pc = "loop" /\ ~LoopCond(queue, apiCalls)]_vars
\* The query that used up the budget is in flight, with tiles queued.
C18_Witness ==
    /\ pc = "await" /\ issued = answered + 1
    /\ apiCalls = MAX_API_CALLS
    /\ Len(queue) > 0

\* ------------------------------------------------------------------------
\* Subdivision geometry on its own: the subdivision step of index.js
\* 133-142 applied to a parent tile, then to any of its children.
\* ------------------------------------------------------------------------
GeomLats == {0, 32085300, 45000000, 0 - 60000000}
GeomRadiiMetres == {501, 1000, 4001, 15000, 16000}

GeomInit ==
    /\ \E lat \in GeomLats, lng \in Lngs, r \in GeomRadiiMetres :
          gParent = Tile(lat, lng, Metres(r), 0)
    /\ gChildren = <<>>
    /\ TravIdle
    /\ SrvIdle
    /\ LimIdle
    /\ SvcIdle

\* The tile passes the radius and depth tests and is subdivided.
GeomSubdivide ==
    /\ gChildren = <<>>
    /\ ShouldSubdivide(maxResultCount, gParent)
    /\ gChildren' = Children(gParent)
    /\ UNCHANGED gParent
    /\ UNCHANGED travVars
    /\ UNCHANGED srvVars
    /\ UNCHANGED <<limVars, svcVars>>

\* A child becomes the tile under consideration.
GeomDescend ==
    /\ gChildren /= <<>>
    /\ \E i \in 1..Len(gChildren) : gParent' = gChildren[i]
    /\ gChildren' = <<>>
    /\ UNCHANGED travVars
    /\ UNCHANGED srvVars
    /\ UNCHANGED <<limVars, svcVars>>

GeomNext == GeomSubdivide \/ GeomDescend
SpecGeom == GeomInit /\ [][GeomNext]_vars

\* Whole metres to micro-degrees of latitude, and of longitude at lat.
MetresToMicro(m) == (m * 100000) \div (METRES_PER_DEGREE \div 10)
MetresToMicroLng(m, latMicro) ==
    (MetresToMicro(m) * 10000) \div CosE4(latMicro)

\* Sample points of the disc of t: the centre displaced by multiples of a
\* quarter of the diameter to the east and to the north.
ProbePoints(t) ==
    LET h == WholeMetres(t.radius) \div 2
    IN  { [lat |-> t.lat + b * MetresToMicro(h),
           lng |-> t.lng + a * MetresToMicroLng(h, t.lat)] :
            <<a, b>> \in { ab \in (0 - 2 .. 2) \X (0 - 2 .. 2) :
                            ab[1] * ab[1] + ab[2] * ab[2] <= 4 } }

\* childRadius * 0.7 (offsetMeters) in whole metres, for a factor in tenths
OffsetMetres(t, tenths) == (WholeMetres(t.radius \div 2) * tenths) \div 10
\* Rounding allowance of the whole-metre comparison
Near(x, y) == Abs(x - y) <= 2 + y \div 1000

\* C3: after a subdivision every point of the parent disc lies in at least
\* one of the four child discs.
C3_ParentDiscCovered ==
    gChildren /= <<>> =>
        \A p \in ProbePoints(gParent) :
            InDisc(p, gParent, gParent.lat) =>
                \E i \in 1..4 : InDisc(p, gChildren[i], gParent.lat)

\* C4: after a subdivision the parent's centre lies in at least one child
\* disc; with an overlap factor of 0.8 it would lie in none.
C4_CentreCovered ==
    gChildren /= <<>> =>
        /\ \E i \in 1..4 : InDisc(gParent, gChildren[i], gParent.lat)
        /\ \A i \in 1..4 :
              ~InDisc(gParent, ChildrenWith(gParent, 8)[i], gParent.lat)
\* A parent four levels down, away from the equator, has been subdivided.
C4_Witness ==
    /\ gChildren /= <<>>
    /\ gParent.depth = MAX_DEPTH - 1
    /\ gParent.lat < 0 - 59000000

\* C5 as stated: each child centre is offsetMeters away from the parent
\* centre.
C5_DistanceIsOffset ==
    gChildren /= <<>> =>
        \A i \in 1..4 :
            LET off == OffsetMetres(gParent, OVERLAP_TENTHS)
                lo  == off - (2 + off \div 1000)
                hi  == off + (2 + off \div 1000)
                d2  == DistSq(gParent, gChildren[i], gParent.lat)
            IN  lo * lo <= d2 /\ d2 <= hi * hi

\* C5 amended: each child centre is displaced by offsetMeters to the north
\* or south and by offsetMeters to the east or west, hence lies at
\* offsetMeters * sqrt(2) from the parent centre, and for every factor the
\* parent centre is covered exactly when 2 * offsetMeters^2 <= childRadius^2.
C5_DiagonalOffset ==
    gChildren /= <<>> =>
        /\ \A i \in 1..4 :
              /\ Near(NorthMetres(gParent, gChildren[i]),
                      OffsetMetres(gParent, OVERLAP_TENTHS))
              /\ Near(EastMetres(gParent, gChildren[i], gParent.lat),
                      OffsetMetres(gParent, OVERLAP_TENTHS))
        /\ \A f \in 1..10 : \A i \in 1..4 :
              InDisc(gParent, ChildrenWith(gParent, f)[i], gParent.lat)
                  <=> (2 * OffsetMetres(gParent, f) * OffsetMetres(gParent, f)
                         <= WholeMetres(gParent.radius \div 2)
                              * WholeMetres(gParent.radius \div 2))
\* A subdivided parent at latitude 45 degrees, where a degree of longitude
\* is much shorter than a degree of latitude.
C5_Witness ==
    /\ gChildren /= <<>>
    /\ gParent.lat >= 45000000
    /\ gParent.depth >= 1

\* C23: for a subdivided parent tile, each of the four children has half
\* the parent's radius and the parent's depth plus one, and the child
\* centres are symmetric about the parent centre: they are the four sign
\* combinations of one latitude offset and one longitude offset.
C23_ChildGeometry ==
    gChildren /= <<>> =>
        /\ Len(gChildren) = 4
        /\ \A i \in 1..4 :
              /\ gChildren[i].radius * 2 = gParent.radius
              /\ gChildren[i].depth = gParent.depth + 1
        /\ \E dLat, dLng \in
                {Abs(gChildren[1].lat - gParent.lat),
                 Abs(gChildren[1].lng - gParent.lng)} :
              /\ dLat > 0 /\ dLng > 0
              /\ {<<gChildren[i].lat - gParent.lat,
                    gChildren[i].lng - gParent.lng>> : i \in 1..4}
                    = {<<dLat, dLng>>, <<dLat, 0 - dLng>>,
                       <<0 - dLat, dLng>>, <<0 - dLat, 0 - dLng>>}
\* A tile away from the equator, two levels down, has been subdivided: its
\* longitude offset is larger than its latitude offset.
C23_Witness ==
    /\ gChildren /= <<>>
    /\ gParent.depth = 2
    /\ Abs(gChildren[1].lng - gParent.lng)
          > Abs(gChildren[1].lat - gParent.lat)

\* ------------------------------------------------------------------------
\* The embedded server: checkRateLimit and the /api/places/adaptive
\* handler (index.js 14-31 and 204-273)
\* ------------------------------------------------------------------------
RATE_LIMIT == 100
WINDOW_MS == 60 * 60 * 1000

\* checkRateLimit(ip) at time t on the entry of ip: the entry it leaves in
\* the store and its verdict.
CheckRateLimit(store, t) ==
    IF store = <<>> \/ t - store[1].windowStart > WINDOW_MS
    THEN [store |-> << [count |-> 1, windowStart |-> t] >>,
          allowed |-> TRUE]
    ELSE [store |-> << [count |-> store[1].count + 1,
                        windowStart |-> store[1].windowStart] >>,
          allowed |-> store[1].count + 1 <= RATE_LIMIT]

\* A query parameter is missing (<<>>), or given with a text that
\* parseFloat reads as a number x (Given(x)) or as NaN (Garbled). A parsed
\* number is <<x>>, NaN is <<>>.
Missing == <<>>
Garbled == << <<>> >>
Given(x) == << <<x>> >>
\* parseFloat(url.searchParams.get(name)): null parses to NaN
ParseFloat(p) == IF p = Missing THEN <<>> ELSE p[1]
\* parseFloat(url.searchParams.get(name) || fallback)
ParseFloatOr(p, fallback) == IF p = Missing THEN <<fallback>> ELSE p[1]
IsNaN(x) == x = <<>>

\* url.searchParams.get('type') || 'both', and the groups searched for it
TypeOf(p) == IF p = <<>> THEN "both" ELSE p[1]
TypeGroups(type) ==
    IF type = "restaurant" THEN << <<"restaurant">> >>
    ELSE IF type = "cafe" THEN << <<"cafe", "coffee_shop">> >>
    ELSE << <<"restaurant">>, <<"cafe", "coffee_shop">> >>

\* const unique = allPlaces.filter(p => !seen.has(p.id) && seen.add(p.id))
RECURSIVE DedupFrom_keepLast(_, _)
RECURSIVE DedupFrom(_, _)
DedupFrom_keepLast(kept, list) ==
    IF list = <<>> THEN kept
    ELSE CHOOSE out \in
            {DedupFrom_keepLast(k, Tail(list)) :
                k \in {IF Has(kept, Head(list).id)
                       THEN [i \in 1..Len(kept) |->
                               IF kept[i].id = Head(list).id
                               THEN Head(list) ELSE kept[i]]
                       ELSE Append(kept, Head(list))}} : TRUE
DedupFrom(kept, list) ==
    IF list = <<>> THEN kept
    ELSE CHOOSE out \in
            {DedupFrom(k, Tail(list)) :
                k \in {IF Has(kept, Head(list).id) THEN kept
                       ELSE Append(kept, Head(list))}} : TRUE
Dedup(list) == DedupFrom(<<>>, list)

\* formatPlace: the fields of the response entry that depend on the
\* recorded attributes (name, rating, reviewCount, placeId).
FormatPlace(p) ==
    [placeId |-> p.id, name |-> p.name, rating |-> p.rating,
     reviewCount |-> p.reviewCount]

\* p.rating >= minRating && p.reviewCount >= minReviews; a comparison with
\* NaN is false.
PassesFilters_strict(p, minRating, minReviews) ==
    /\ ~IsNaN(minRating) /\ ~IsNaN(minReviews)
    /\ p.rating > minRating[1]
    /\ p.reviewCount >= minReviews[1]
PassesFilters(p, minRating, minReviews) ==
    /\ ~IsNaN(minRating) /\ ~IsNaN(minReviews)
    /\ p.rating >= minRating[1]
    /\ p.reviewCount >= minReviews[1]

Filtered(list, minRating, minReviews) ==
    LET Keep(p) == PassesFilters(p, minRating, minReviews)
    IN  SelectSeq(list, Keep)

\* (a, b) => b.rating - a.rating || b.reviewCount - a.reviewCount
Compare(a, b) ==
    IF b.rating - a.rating /= 0 THEN b.rating - a.rating
    ELSE b.reviewCount - a.reviewCount

\* Array.prototype.sort with that comparator: a stable sort. x goes after
\* the entries that do not compare greater than it.
InsertSorted_unstable(sorted, x) ==
    LET k == Cardinality({i \in 1..Len(sorted) : Compare(sorted[i], x) < 0})
    IN  SubSeq(sorted, 1, k) \o <<x>> \o SubSeq(sorted, k + 1, Len(sorted))
InsertSorted(sorted, x) ==
    LET k == Cardinality({i \in 1..Len(sorted) : Compare(sorted[i], x) <= 0})
    IN  SubSeq(sorted, 1, k) \o <<x>> \o SubSeq(sorted, k + 1, Len(sorted))
RECURSIVE SortFrom(_, _)
SortFrom(sorted, list) ==
    IF list = <<>> THEN sorted
    ELSE CHOOSE out \in
            {SortFrom(s, Tail(list)) :
                s \in {InsertSorted(sorted, Head(list))}} : TRUE
Sorted(list) == SortFrom(<<>>, list)

\* What the provider returns to the server's traversals. The restaurant
\* group's first page is truncated (ids 1..20, some without rating or
\* review count); its other tiles return ids 19..22, two of them seen
\* before with other attributes. The cafe group returns ids 20..24, so ids
\* 20..22 are found by both groups with different attributes.
RestaurantPage ==
    Ok([i \in 1..maxResultCount |->
          Place(i, <<"R">>,
                IF i % 5 = 0 THEN <<>> ELSE << 40 + 5 * (i % 3) >>,
                IF i % 7 = 0 THEN <<>> ELSE << 100 * (i % 4) >>)])
RestaurantNextPage == Ok(MkPlaces(19, 22, <<"R2">>, <<45>>, <<300>>))
CafePage == Ok(MkPlaces(20, 24, <<"C">>, <<50>>, <<250>>))

\* The provider accepts a circle with a centre on the globe and a radius
\* in (0, 50000] metres; for any other it returns an error body, which
\* searchNearby turns into `response.places || []`.
ProviderAccepts(t) ==
    /\ Abs(t.lat) <= 90000000 /\ Abs(t.lng) <= 180000000
    /\ t.radius > 0 /\ t.radius <= Metres(50000)

\* The first query of a traversal may also fail (searchNearby throws).
ServerAnswers(types, t, n) ==
    IF ~ProviderAccepts(t) THEN {RespEmpty}
    ELSE IF types[1] = "restaurant"
         THEN IF n = 1 THEN {RestaurantPage, RespFail}
              ELSE {RestaurantNextPage}
         ELSE IF n = 1 THEN {CafePage, RespFail} ELSE {RespEmpty}

\* Requests: the query parameters as sent.
Request(latitude, longitude, radius, type, minRating, minReviews) ==
    [latitude |-> latitude, longitude |-> longitude, radius |-> radius,
     type |-> type, minRating |-> minRating, minReviews |-> minReviews]
ReqLatitudes == {Garbled, Given(95000000), Given(32085300)}
ReqLongitudes == {Missing, Given(34781800)}
ReqRadii == {Missing, Given(0), Given(0 - 1), Given(1)}
ReqTypes == {<<>>, <<"restaurant">>, <<"cafe">>}
ReqMinRatings == {Missing, Given(40)}
ReqMinReviews == {Missing, Given(200)}
Requests ==
    {Request(la, lo, ra, ty, mr, mv) :
        la \in ReqLatitudes, lo \in ReqLongitudes, ra \in ReqRadii,
        ty \in ReqTypes, mr \in ReqMinRatings, mv \in ReqMinReviews}
\* Requests served at the same time.
ConcurrentRequests ==
    {Request(Given(32085300), Given(34781800), ra, ty, Missing, Missing) :
        ra \in {Given(0), Given(1)}, ty \in {<<>>, <<"restaurant">>}}

\* The handler's locals before the try block, and no traversal.
NoLocals ==
    [lat |-> <<>>, lng |-> <<>>, radiusMeters |-> 0,
     minRating |-> <<>>, minReviews |-> <<>>,
     typeGroups |-> <<>>, g |-> 0, allPlaces |-> <<>>,
     totalMetrics |-> [apiCalls |-> 0, uniquePlaces |-> 0],
     unique |-> <<>>]
NoTraversal ==
    [queue |-> <<>>, apiCalls |-> 0, seenPlaces |-> <<>>, pc |-> "none",
     tile |-> <<>>, result |-> <<>>]
\* adaptiveTilingSearch(lat, lng, radiusMeters, types): fresh locals
NewTraversal(lat, lng, radiusMeters) ==
    [queue |-> << Tile(lat, lng, radiusMeters, 0) >>, apiCalls |-> 0,
     seenPlaces |-> <<>>, pc |-> "loop", tile |-> <<>>, result |-> <<>>]
NoHistory == [issued |-> 0, started |-> 0, returned |-> 0, seen |-> <<>>]

SrvInit ==
    /\ req \in {<<a>> : a \in Requests}
                 \cup {<<a, b>> : a \in ConcurrentRequests,
                                  b \in ConcurrentRequests}
    /\ apiKey \in BOOLEAN
    /\ rateLimitStore \in
          {<<>>} \cup {<< [count |-> c, windowStart |-> 0] >> :
                          c \in {RATE_LIMIT - 1, RATE_LIMIT}}
    /\ now = 0
    /\ hpc = [r \in DOMAIN req |-> "new"]
    /\ hloc = [r \in DOMAIN req |-> NoLocals]
    /\ trav = [r \in DOMAIN req |-> NoTraversal]
    /\ res = [r \in DOMAIN req |-> <<>>]
    /\ shist = [r \in DOMAIN req |-> NoHistory]
    /\ TravIdle
    /\ GeomIdle
    /\ LimIdle
    /\ SvcIdle

\* res.writeHead(status); res.end(JSON.stringify(body))
ErrorBody(status, error) ==
    [status |-> status, error |-> error, totalFound |-> 0,
     afterFilters |-> 0, places |-> <<>>,
     metrics |-> [apiCalls |-> 0, uniquePlaces |-> 0]]

\* The handler up to its first await: rate limit, key, parameters, and
\* the call of adaptiveTilingSearch for the first group.
Receive(r) ==
    /\ hpc[r] = "new"
    /\ \E dt \in {0, WINDOW_MS + 1} :
        LET t == now + dt
            rl == CheckRateLimit(rateLimitStore, t)
            lat == ParseFloat(req[r].latitude)
            lng == ParseFloat(req[r].longitude)
            radius == ParseFloatOr(req[r].radius, 15)
            type == TypeOf(req[r].type)
            minRating == ParseFloatOr(req[r].minRating, 45)
            minReviews == ParseFloatOr(req[r].minReviews, 100)
            radiusMeters == Metres(radius[1] * 1000)
        IN  /\ now' = t
            /\ rateLimitStore' = rl.store
            /\ IF ~rl.allowed \/ ~apiKey \/ IsNaN(lat) \/ IsNaN(lng)
               THEN /\ res' = [res EXCEPT ![r] =
                        << IF ~rl.allowed
                           THEN ErrorBody(429, "RATE_LIMIT_EXCEEDED")
                           ELSE IF ~apiKey
                           THEN ErrorBody(400, "API_KEY_NOT_SET")
                           ELSE ErrorBody(400, "INVALID_COORDINATES") >>]
                    /\ hpc' = [hpc EXCEPT ![r] = "done"]
                    /\ UNCHANGED <<hloc, trav, shist>>
               ELSE /\ hloc' = [hloc EXCEPT ![r] =
                        [lat |-> lat, lng |-> lng,
                         radiusMeters |-> radiusMeters,
                         minRating |-> minRating,
                         minReviews |-> minReviews,
                         typeGroups |-> TypeGroups(type), g |-> 1,
                         allPlaces |-> <<>>,
                         totalMetrics |-> [apiCalls |-> 0,
                                           uniquePlaces |-> 0],
                         unique |-> <<>>]]
                    /\ trav' = [trav EXCEPT ![r] =
                        NewTraversal(lat[1], lng[1], radiusMeters)]
                    /\ shist' = [shist EXCEPT ![r].started = 1]
                    /\ hpc' = [hpc EXCEPT ![r] = "search"]
                    /\ UNCHANGED res
    /\ UNCHANGED <<apiKey, req>>
    /\ UNCHANGED <<travVars, geomVars, limVars, svcVars>>

\* The traversal of request r: loop test passes, shift, count, query.
TDequeue_sharedCounter(r) ==
    /\ hpc[r] = "search" /\ trav[r].pc = "loop"
    /\ LoopCond(trav[r].queue, trav[r].apiCalls)
    /\ trav' = [q \in DOMAIN trav |->
                  IF q = r
                  THEN [trav[r] EXCEPT !.tile = << Head(trav[r].queue) >>,
                                       !.queue = Tail(trav[r].queue),
                                       !.apiCalls = trav[r].apiCalls + 1,
                                       !.pc = "await"]
                  ELSE [trav[q] EXCEPT !.apiCalls = trav[q].apiCalls + 1]]
    /\ shist' = [shist EXCEPT ![r].issued = @ + 1]
    /\ UNCHANGED <<apiKey, rateLimitStore, now, req, hpc, hloc, res>>
    /\ UNCHANGED <<travVars, geomVars, limVars, svcVars>>
TDequeue(r) ==
    /\ hpc[r] = "search" /\ trav[r].pc = "loop"
    /\ LoopCond(trav[r].queue, trav[r].apiCalls)
    /\ trav' = [trav EXCEPT ![r] =
                  [trav[r] EXCEPT !.tile = << Head(trav[r].queue) >>,
                                  !.queue = Tail(trav[r].queue),
                                  !.apiCalls = trav[r].apiCalls + 1,
                                  !.pc = "await"]]
    /\ shist' = [shist EXCEPT ![r].issued = @ + 1]
    /\ UNCHANGED <<apiKey, rateLimitStore, now, req, hpc, hloc, res>>
    /\ UNCHANGED <<travVars, geomVars, limVars, svcVars>>

\* The places of an answer, tagged with the group that found them.
Tagged(g, places) == [i \in 1..Len(places) |-> [g |-> g, place |-> places[i]]]

\* searchNearby resolves for the traversal of request r.
TQueryOk(r) ==
    /\ hpc[r] = "search" /\ trav[r].pc = "await"
    /\ \E resp \in ServerAnswers(hloc[r].typeGroups[hloc[r].g],
                                trav[r].tile[1], trav[r].apiCalls) :
        /\ resp.ok
        /\ trav' = [trav EXCEPT ![r] =
              [trav[r] EXCEPT
                 !.seenPlaces = InsertAll(trav[r].seenPlaces, resp.places),
                 !.queue = IF ShouldSubdivide(Len(resp.places),
                                              trav[r].tile[1])
                           THEN trav[r].queue \o Children(trav[r].tile[1])
                           ELSE trav[r].queue,
                 !.tile = <<>>,
                 !.pc = "loop"]]
        /\ shist' = [shist EXCEPT ![r].seen =
              AppendNew(@, Tagged(hloc[r].g, resp.places))]
    /\ UNCHANGED <<apiKey, rateLimitStore, now, req, hpc, hloc, res>>
    /\ UNCHANGED <<travVars, geomVars, limVars, svcVars>>

\* searchNearby throws for the traversal of request r.
TQueryFail(r) ==
    /\ hpc[r] = "search" /\ trav[r].pc = "await"
    /\ \E resp \in ServerAnswers(hloc[r].typeGroups[hloc[r].g],
                                trav[r].tile[1], trav[r].apiCalls) :
        ~resp.ok
    /\ trav' = [trav EXCEPT ![r] =
          [trav[r] EXCEPT !.queue = OnFailure(trav[r].queue, trav[r].tile[1]),
                          !.tile = <<>>,
                          !.pc = "loop"]]
    /\ UNCHANGED <<apiKey, rateLimitStore, now, req, hpc, hloc, res, shist>>
    /\ UNCHANGED <<travVars, geomVars, limVars, svcVars>>

\* The traversal of request r returns { places, metrics }.
TReturn(r) ==
    /\ hpc[r] = "search" /\ trav[r].pc = "loop"
    /\ ~LoopCond(trav[r].queue, trav[r].apiCalls)
    /\ trav' = [trav EXCEPT ![r] =
          [trav[r] EXCEPT
             !.result = << [places |-> trav[r].seenPlaces,
                            metrics |->
                               [apiCalls |-> trav[r].apiCalls,
                                uniquePlaces |-> Len(trav[r].seenPlaces)]] >>,
             !.pc = "done"]]
    /\ shist' = [shist EXCEPT ![r].returned = @ + 1]
    /\ UNCHANGED <<apiKey, rateLimitStore, now, req, hpc, hloc, res>>
    /\ UNCHANGED <<travVars, geomVars, limVars, svcVars>>

\* The handler resumes after `await adaptiveTilingSearch(...)`: it adds
\* the group's places and call count, then searches the next group or,
\* after the last one, merges, formats, filters, sorts and responds.
Collect(r) ==
    /\ hpc[r] = "search" /\ trav[r].pc = "done"
    /\ LET h == hloc[r]
           ret == trav[r].result[1]
           allPlaces == h.allPlaces \o ret.places
           totalMetrics == [h.totalMetrics EXCEPT
                              !.apiCalls = @ + ret.metrics.apiCalls]
       IN  IF h.g < Len(h.typeGroups)
           THEN /\ hloc' = [hloc EXCEPT ![r] =
                       [h EXCEPT !.allPlaces = allPlaces,
                                 !.totalMetrics = totalMetrics,
                                 !.g = h.g + 1]]
                /\ trav' = [trav EXCEPT ![r] =
                       NewTraversal(h.lat[1], h.lng[1], h.radiusMeters)]
                /\ shist' = [shist EXCEPT ![r].started = @ + 1]
                /\ UNCHANGED <<hpc, res>>
           ELSE LET unique == Dedup(allPlaces)
                    formatted ==
                        Sorted(Filtered([i \in 1..Len(unique) |->
                                            FormatPlace(unique[i])],
                                        h.minRating, h.minReviews))
                IN  /\ hloc' = [hloc EXCEPT ![r] =
                           [h EXCEPT !.allPlaces = allPlaces,
                                     !.totalMetrics = totalMetrics,
                                     !.unique = unique]]
                    /\ res' = [res EXCEPT ![r] =
                           << [status |-> 200, error |-> "",
                               totalFound |-> Len(unique),
                               afterFilters |-> Len(formatted),
                               places |-> formatted,
                               metrics |-> totalMetrics] >>]
                    /\ hpc' = [hpc EXCEPT ![r] = "done"]
                    /\ UNCHANGED <<trav, shist>>
    /\ UNCHANGED <<apiKey, rateLimitStore, now, req>>
    /\ UNCHANGED <<travVars, geomVars, limVars, svcVars>>

\* channel listener 'set-api-key': apiKey = key
SetApiKey ==
    /\ ~apiKey
    /\ apiKey' = TRUE
    /\ UNCHANGED <<rateLimitStore, now, req, hpc, hloc, trav, res, shist>>
    /\ UNCHANGED <<travVars, geomVars, limVars, svcVars>>

SrvNext ==
    \/ SetApiKey
    \/ \E r \in DOMAIN req : Receive(r)
    \/ \E r \in DOMAIN req : TDequeue(r)
    \/ \E r \in DOMAIN req : TQueryOk(r)
    \/ \E r \in DOMAIN req : TQueryFail(r)
    \/ \E r \in DOMAIN req : TReturn(r)
    \/ \E r \in DOMAIN req : Collect(r)
SpecServer == SrvInit /\ [][SrvNext]_vars

\* ------------------------------------------------------------------------
\* Properties of the handler
\* ------------------------------------------------------------------------
\* C13: a request whose center coordinates are malformed (not a number, or
\* latitude outside [-90, 90] or longitude outside [-180, 180]) or whose
\* radius is not positive is rejected with an error before any tile is
\* scheduled: it starts no traversal, issues no provider query and is not
\* answered with status 200.
C13_InvalidInputRejected ==
    \A r \in DOMAIN req :
        LET lat == ParseFloat(req[r].latitude)
            lng == ParseFloat(req[r].longitude)
            radius == ParseFloatOr(req[r].radius, 15)
            invalid == \/ IsNaN(lat) \/ IsNaN(lng)
                       \/ Abs(lat[1]) > 90000000
                       \/ Abs(lng[1]) > 180000000
                       \/ radius[1] <= 0
        IN  invalid => /\ shist[r].started = 0
                       /\ shist[r].issued = 0
                       /\ trav[r].pc = "none"
                       /\ res[r] /= <<>> => res[r][1].status /= 200

\* C17: traversals share no mutable state. A step that changes the
\* locals (counter, queue, registry) of one request's traversal leaves the
\* traversal and the handler locals of every other request as they were;
\* each traversal, also that of a later group of the same request, starts
\* with counter 0, a queue of one tile and an empty registry; the calls a
\* request has counted are the calls it has issued; and a request is
\* merged and answered only when the traversal of its last group has
\* returned and none of its traversals is running.
C17_NoSharedTraversalState ==
    /\ [][\A r1, r2 \in DOMAIN req :
            (r1 /= r2 /\ trav'[r1] /= trav[r1])
               => (trav'[r2] = trav[r2] /\ hloc'[r2] = hloc[r2])]_vars
    /\ [][\A r \in DOMAIN req :
            shist'[r].started /= shist[r].started
               => /\ trav'[r].apiCalls = 0
                  /\ trav'[r].seenPlaces = <<>>
                  /\ Len(trav'[r].queue) = 1
                  /\ shist[r].returned = shist[r].started]_vars
    /\ [][\A r \in DOMAIN req :
            (res[r] = <<>> /\ res'[r] /= <<>> /\ res'[r][1].status = 200)
               => /\ trav[r].pc = "done"
                  /\ shist[r].started = Len(hloc[r].typeGroups)
                  /\ shist[r].returned = shist[r].started]_vars
    /\ [](\A r \in DOMAIN req :
            /\ shist[r].started - shist[r].returned \in {0, 1}
            /\ hpc[r] = "search"
                 => hloc[r].totalMetrics.apiCalls + trav[r].apiCalls
                       = shist[r].issued
            /\ trav[r].apiCalls <= MAX_API_CALLS)
\* Two requests are searched at the same time, each with a query in
\* flight: one is on its third call with places recorded, the other on the
\* first call of its second group.
C17_Witness ==
    \E r1, r2 \in DOMAIN req :
        /\ r1 /= r2
        /\ hpc[r1] = "search" /\ hpc[r2] = "search"
        /\ trav[r1].pc = "await" /\ trav[r2].pc = "await"
        /\ trav[r1].apiCalls = 3 /\ trav[r1].seenPlaces /= <<>>
        /\ hloc[r2].g = 2 /\ trav[r2].apiCalls = 1
        /\ hloc[r2].allPlaces /= <<>>

\* C19: in the merged list of an answered request every identity appears
\* exactly once, the identities are those returned to any of its groups,
\* and the record kept for an identity is the one made from its first
\* sighting: the sighting of the group searched first among those that
\* found it (the restaurant group is searched before the cafe group).
C19_MergeFirstGroupWins ==
    \A r \in DOMAIN req :
        (res[r] /= <<>> /\ res[r][1].status = 200) =>
            LET u == hloc[r].unique
                seen == shist[r].seen
            IN  /\ \A i, j \in 1..Len(u) : u[i].id = u[j].id => i = j
                /\ {u[i].id : i \in 1..Len(u)}
                      = {seen[k].place.id : k \in 1..Len(seen)}
                /\ \A i \in 1..Len(u) :
                      \E k \in 1..Len(seen) :
                          /\ seen[k].place.id = u[i].id
                          /\ u[i] = Record(seen[k].place)
                          /\ \A m \in 1..Len(seen) :
                                seen[m].place.id = u[i].id
                                   => k <= m /\ seen[k].g <= seen[m].g
                /\ Len(hloc[r].typeGroups) = 2
                      => hloc[r].typeGroups[1] = <<"restaurant">>
\* An answered request whose two groups both found an identity, with
\* different attributes; the merged list has the restaurant group's record.
C19_Witness ==
    \E r \in DOMAIN req :
        /\ res[r] /= <<>> /\ res[r][1].status = 200
        /\ \E k, m \in 1..Len(shist[r].seen) :
              /\ shist[r].seen[k].g = 1 /\ shist[r].seen[m].g = 2
              /\ shist[r].seen[k].place.id = shist[r].seen[m].place.id
              /\ Record(shist[r].seen[k].place)
                    /= Record(shist[r].seen[m].place)
              /\ \E i \in 1..Len(hloc[r].unique) :
                    hloc[r].unique[i] = Record(shist[r].seen[k].place)

\* C20: the list returned for an answered request holds exactly the merged
\* unique entities whose rating is at least minRating and whose review
\* count is at least minReviews, a rating or review count the provider did
\* not give counting as 0: every identity sighted is returned iff its
\* first sighting meets both thresholds, with the attributes of the merged
\* record, and no identity is returned twice.
C20_FiltersExact ==
    \A r \in DOMAIN req :
        (res[r] /= <<>> /\ res[r][1].status = 200) =>
            LET seen == shist[r].seen
                out == res[r][1].places
                minRating == ParseFloatOr(req[r].minRating, 45)[1]
                minReviews == ParseFloatOr(req[r].minReviews, 100)[1]
                First(k) == \A m \in 1..(k - 1) :
                               seen[m].place.id /= seen[k].place.id
                Meets(p) == /\ OrZero(p.rating) >= minRating
                            /\ OrZero(p.userRatingCount) >= minReviews
            IN  /\ {out[i].placeId : i \in 1..Len(out)}
                      = {seen[k].place.id :
                            k \in {n \in 1..Len(seen) :
                                     First(n) /\ Meets(seen[n].place)}}
                /\ \A i, j \in 1..Len(out) :
                      out[i].placeId = out[j].placeId => i = j
                /\ \A i \in 1..Len(out) :
                      \E j \in 1..Len(hloc[r].unique) :
                          out[i] = FormatPlace(hloc[r].unique[j])
\* An answered request with the default thresholds (4.5 and 100): an
\* entity exactly on both thresholds is returned, one without a rating and
\* one with too few reviews are left out.
C20_Witness ==
    \E r \in DOMAIN req :
        /\ res[r] /= <<>> /\ res[r][1].status = 200
        /\ req[r].minRating = Missing /\ req[r].minReviews = Missing
        /\ \E i \in 1..Len(res[r][1].places) :
              /\ res[r][1].places[i].rating = 45
              /\ res[r][1].places[i].reviewCount = 100
        /\ \E k, m \in 1..Len(shist[r].seen) :
              /\ shist[r].seen[k].place.rating = <<>>
              /\ shist[r].seen[m].place.rating = <<50>>
              /\ shist[r].seen[m].place.userRatingCount = <<0>>
              /\ \A i \in 1..Len(res[r][1].places) :
                    /\ res[r][1].places[i].placeId
                          /= shist[r].seen[k].place.id
                    /\ res[r][1].places[i].placeId
                          /= shist[r].seen[m].place.id

\* C21: the list returned for an answered request is ordered by rating
\* descending, entries of equal rating by review count descending, and
\* entries equal in both keep the order they have in the merged list.
C21_SortedStable ==
    \A r \in DOMAIN req :
        (res[r] /= <<>> /\ res[r][1].status = 200) =>
            LET out == res[r][1].places
                u == hloc[r].unique
                Pos(id) == CHOOSE j \in 1..Len(u) : u[j].id = id
            IN  \A i \in 1..(Len(out) - 1) :
                    \/ out[i].rating > out[i + 1].rating
                    \/ /\ out[i].rating = out[i + 1].rating
                       /\ out[i].reviewCount > out[i + 1].reviewCount
                    \/ /\ out[i].rating = out[i + 1].rating
                       /\ out[i].reviewCount = out[i + 1].reviewCount
                       /\ Pos(out[i].placeId) < Pos(out[i + 1].placeId)
\* An answered request whose list has a step down in rating, a tie in
\* rating decided by the review count, and three entries equal in both
\* keys.
C21_Witness ==
    \E r \in DOMAIN req :
        /\ res[r] /= <<>> /\ res[r][1].status = 200
        /\ \E i, j, k \in 1..(Len(res[r][1].places) - 2) :
              LET out == res[r][1].places
              IN  /\ out[i].rating > out[i + 1].rating
                  /\ out[j].rating = out[j + 1].rating
                  /\ out[j].reviewCount > out[j + 1].reviewCount
                  /\ out[k].rating = out[k + 2].rating
                  /\ out[k].reviewCount = out[k + 2].reviewCount

\* C22: the metrics of an answered request: the call total is the number
\* of provider calls issued by the traversals of all its groups (at most
\* 200 per group), the count of unique entities before the filters is the
\* number of distinct identities found by all groups, and the count after
\* the filters is the length of the returned list.
C22_MetricsExact ==
    \A r \in DOMAIN req :
        (res[r] /= <<>> /\ res[r][1].status = 200) =>
            LET seen == shist[r].seen
                body == res[r][1]
            IN  /\ body.metrics.apiCalls = shist[r].issued
                /\ body.metrics.apiCalls
                      <= MAX_API_CALLS * Len(hloc[r].typeGroups)
                /\ body.metrics.uniquePlaces =
                      Cardinality({seen[k].place.id : k \in 1..Len(seen)})
                /\ body.afterFilters = Len(body.places)

\* ------------------------------------------------------------------------
\* The Express rate limiter (src/rateLimiter.js; RATE_LIMIT and WINDOW_MS
\* have the values of the embedded server's)
\* ------------------------------------------------------------------------
\* Bounds: the requests modelled beyond RATE_LIMIT for the busiest IP, and
\* the requests per window of every other IP.
MaxOverLimit == 2
MaxOtherRequests == 1

\* The instants at which something happens, in ms.
Times == {0, 1, WINDOW_MS, WINDOW_MS + 1}

\* The headers and socket address of a request; x-forwarded-for is given
\* as its comma-separated entries.
LimRequests ==
    {[forwarded |-> <<"a", "b">>, realIp |-> <<"b">>, remote |-> <<"b">>],
     [forwarded |-> <<>>, realIp |-> <<"b">>, remote |-> <<"a">>],
     [forwarded |-> <<>>, realIp |-> <<>>, remote |-> <<"a">>],
     [forwarded |-> <<>>, realIp |-> <<>>, remote |-> <<>>]}

\* getClientIp(req)
GetClientIp(rq) ==
    IF rq.forwarded /= <<>> THEN rq.forwarded[1]
    ELSE IF rq.realIp /= <<>> THEN rq.realIp[1]
    ELSE IF rq.remote /= <<>> THEN rq.remote[1]
    ELSE "unknown"

\* now - data.windowStart > WINDOW_MS
WindowExpired_ge(data, t) == t - data.windowStart >= WINDOW_MS
WindowExpired(data, t) == t - data.windowStart > WINDOW_MS

\* rateLimitData after lines 68-87, for the stored entry (<<>> if none)
Touch_sliding(entry, t) ==
    IF entry = <<>> \/ WindowExpired(entry[1], t)
    THEN [count |-> 1, windowStart |-> t]
    ELSE [count |-> entry[1].count + 1, windowStart |-> t]
Touch(entry, t) ==
    IF entry = <<>> THEN [count |-> 1, windowStart |-> t]
    ELSE IF WindowExpired(entry[1], t)
         THEN [count |-> 1, windowStart |-> t]
         ELSE [count |-> entry[1].count + 1,
               windowStart |-> entry[1].windowStart]

\* Math.max(0, RATE_LIMIT - rateLimitData.count)
Remaining_noFloor(count) == RATE_LIMIT - count
Remaining(count) == IF RATE_LIMIT - count > 0 THEN RATE_LIMIT - count ELSE 0

\* Math.ceil(a / b) for b > 0
CeilDiv(a, b) == 0 - ((0 - a) \div b)
\* rateLimitData.count > RATE_LIMIT
Exceeded_ge(count) == count >= RATE_LIMIT
Exceeded(count) == count > RATE_LIMIT

\* History: the first request of the run of requests that lie within
\* WINDOW_MS of it, and how many there are.
Noted(h, t) ==
    IF h = <<>> \/ t - h[1].first > WINDOW_MS
    THEN << [first |-> t, total |-> 1] >>
    ELSE << [first |-> h[1].first, total |-> h[1].total + 1] >>

\* The response of rateLimitMiddleware for the entry `data` at time t: the
\* headers, and either the 429 or the call of next().
Answer(ip, data, t) ==
    LET limited == Exceeded(data.count)
    IN  [ip |-> ip, at |-> t,
         limit |-> RATE_LIMIT,
         remaining |-> Remaining(data.count),
         reset |-> CeilDiv(data.windowStart + WINDOW_MS, 1000),
         retryAfter |->
             IF limited
             THEN << CeilDiv(data.windowStart + WINDOW_MS - t, 1000) >>
             ELSE <<>>,
         status |-> IF limited THEN 429 ELSE 0,
         error |-> IF limited THEN "RATE_LIMIT_EXCEEDED" ELSE "",
         next |-> ~limited]

\* rateLimitMiddleware(req, res, next) on a rate-limited route
RateLimited ==
    /\ \E rq \in LimRequests :
        LET ip == GetClientIp(rq)
            data == Touch(limiterStore[ip], lNow)
        IN  /\ data.count <= (IF ip = "a" THEN RATE_LIMIT + MaxOverLimit
                              ELSE MaxOtherRequests)
            /\ limiterStore' = [limiterStore EXCEPT ![ip] = << data >>]
            /\ lLast' = << Answer(ip, data, lNow) >>
            /\ lHist' = [lHist EXCEPT ![ip] = Noted(lHist[ip], lNow)]
    /\ UNCHANGED <<lNow, healthLog>>
    /\ UNCHANGED <<travVars, geomVars, srvVars, svcVars>>

\* cleanupExpiredEntries(), from the interval timer or triggerCleanup()
CleanupExpired_eager ==
    /\ limiterStore' =
          [ip \in IPs |->
              IF limiterStore[ip] /= <<>>
                    /\ lNow - limiterStore[ip][1].windowStart >= WINDOW_MS
              THEN <<>> ELSE limiterStore[ip]]
    /\ UNCHANGED <<lNow, lLast, lHist, healthLog>>
    /\ UNCHANGED <<travVars, geomVars, srvVars, svcVars>>
CleanupExpired ==
    /\ limiterStore' =
          [ip \in IPs |->
              IF limiterStore[ip] /= <<>>
                    /\ WindowExpired(limiterStore[ip][1], lNow)
              THEN <<>> ELSE limiterStore[ip]]
    /\ UNCHANGED <<lNow, lLast, lHist, healthLog>>
    /\ UNCHANGED <<travVars, geomVars, srvVars, svcVars>>

\* Time passes in the Express process.
Tick ==
    /\ \E t \in Times : t > lNow /\ lNow' = t
    /\ UNCHANGED <<limiterStore, lLast, lHist, healthLog>>
    /\ UNCHANGED <<travVars, geomVars, srvVars, svcVars>>

LimInit == LimIdle /\ TravIdle /\ GeomIdle /\ SrvIdle /\ SvcIdle
LimNext == RateLimited \/ CleanupExpired \/ Tick
SpecLimiter == LimInit /\ [][LimNext]_vars

\* ------------------------------------------------------------------------
\* Rate limiter properties
\* ------------------------------------------------------------------------
\* C24: of the requests of one IP that fall within one window, the first
\* RATE_LIMIT are handed to next(), and the one after them and every later
\* one is answered 429 RATE_LIMIT_EXCEEDED without next() being called.
C24_FirstHundredPass ==
    lLast /= <<>> =>
        LET l == lLast[1]
            h == lHist[l.ip][1]
        IN  /\ h.total <= RATE_LIMIT => l.next /\ l.status /= 429
            /\ h.total > RATE_LIMIT =>
                  /\ l.status = 429
                  /\ l.error = "RATE_LIMIT_EXCEEDED"
                  /\ ~l.next
C24_Witness ==
    /\ lLast /= <<>>
    /\ lLast[1].status = 429
    /\ lHist[lLast[1].ip][1].total = RATE_LIMIT + 2
    /\ lLast[1].at = WINDOW_MS

\* C25: on every response of the middleware, X-RateLimit-Remaining is
\* max(0, RATE_LIMIT - count) and never negative, X-RateLimit-Reset is the
\* end of the current window (windowStart + WINDOW_MS) as a Unix timestamp,
\* i.e. the first whole second not before it, and Retry-After is set exactly
\* on a 429, with a value from 0 to 3600 seconds.
C25_HeadersExact ==
    lLast /= <<>> =>
        LET l == lLast[1]
            h == lHist[l.ip][1]
            end == h.first + WINDOW_MS
        IN  /\ l.remaining >= 0
            /\ l.remaining = (IF h.total < RATE_LIMIT
                              THEN RATE_LIMIT - h.total ELSE 0)
            /\ l.reset * 1000 >= end
            /\ (l.reset - 1) * 1000 < end
            /\ (l.retryAfter /= <<>>) <=> (l.status = 429)
            /\ l.retryAfter /= <<>> =>
                  l.retryAfter[1] >= 0 /\ l.retryAfter[1] <= 3600
C25_Witness ==
    /\ lLast /= <<>>
    /\ lLast[1].status = 429
    /\ lLast[1].retryAfter = << 1 >>
    /\ lLast[1].remaining = 0
    /\ lLast[1].reset = 3601
    /\ lHist[lLast[1].ip][1].total = RATE_LIMIT + 2

\* C26: windows are fixed.  A request of an IP whose entry has not expired
\* leaves the entry's windowStart as its first request set it and adds one
\* to the count, whether it is admitted or rejected; a request arriving
\* more than WINDOW_MS after windowStart (or finding no entry) makes the
\* entry {count: 1, windowStart: now} and is admitted.
C26_FixedWindows ==
    [][
    \A ip \in IPs :
        lHist'[ip] /= lHist[ip] =>
            /\ limiterStore'[ip] /= <<>>
            /\ limiterStore'[ip][1].windowStart = lHist'[ip][1].first
            /\ IF limiterStore[ip] /= <<>>
                    /\ lNow - limiterStore[ip][1].windowStart <= WINDOW_MS
               THEN /\ limiterStore'[ip][1].windowStart
                          = limiterStore[ip][1].windowStart
                    /\ limiterStore'[ip][1].count
                          = limiterStore[ip][1].count + 1
               ELSE /\ limiterStore'[ip][1]
                          = [count |-> 1, windowStart |-> lNow]
                    /\ lLast'[1].ip = ip
                    /\ lLast'[1].next
                    /\ lLast'[1].status /= 429
    ]_vars
C26_Witness ==
    /\ lLast /= <<>>
    /\ lLast[1].ip = "a"
    /\ lLast[1].at = WINDOW_MS + 1
    /\ lLast[1].next
    /\ limiterStore["a"] = << [count |-> 2, windowStart |-> 1] >>
    /\ limiterStore["unknown"]
          = << [count |-> 1, windowStart |-> WINDOW_MS + 1] >>
    /\ lHist["unknown"][1].first = WINDOW_MS + 1

\* C28: a run of cleanupExpiredEntries (the only step that changes the store
\* without a request) removes exactly the entries with
\* now - windowStart > WINDOW_MS and leaves every other entry's count and
\* windowStart as they were.
C28_CleanupExact ==
    [][
    (limiterStore' /= limiterStore /\ lHist' = lHist) =>
        \A ip \in IPs :
            IF limiterStore[ip] /= <<>>
                  /\ lNow - limiterStore[ip][1].windowStart > WINDOW_MS
            THEN limiterStore'[ip] = <<>>
            ELSE limiterStore'[ip] = limiterStore[ip]
    ]_vars
C28_Witness ==
    /\ lNow = WINDOW_MS + 1
    /\ limiterStore["a"] = <<>>
    /\ lHist["a"] = << [first |-> 0, total |-> RATE_LIMIT + 1] >>
    /\ limiterStore["b"] = << [count |-> 1, windowStart |-> 1] >>

\* ------------------------------------------------------------------------
\* /health on both servers (src/server.js, public/nodejs/index.js)
\* ------------------------------------------------------------------------
\* The answers of /health are kept with `made`, the number of requests the
\* limiter had counted for the client when the answer was given.
\* app.get('/health', (req, res) => ...): no middleware on the route
ExpressHealth_limited ==
    /\ \E rq \in LimRequests :
        LET ip == GetClientIp(rq)
            data == Touch(limiterStore[ip], lNow)
        IN  /\ data.count <= (IF ip = "a" THEN RATE_LIMIT + MaxOverLimit
                              ELSE MaxOtherRequests)
            /\ limiterStore' = [limiterStore EXCEPT ![ip] = << data >>]
            /\ healthLog' = [healthLog EXCEPT !["express"] =
                  << [status |-> 200, body |-> "ok", timestamp |-> lNow,
                      made |-> IF limiterStore[ip] = <<>> THEN 0
                               ELSE limiterStore[ip][1].count] >>]
    /\ UNCHANGED <<lNow, lLast, lHist>>
    /\ UNCHANGED <<travVars, geomVars, srvVars, svcVars>>
ExpressHealth ==
    /\ \E rq \in LimRequests :
        LET ip == GetClientIp(rq)
        IN  healthLog' = [healthLog EXCEPT !["express"] =
                << [status |-> 200, body |-> "ok", timestamp |-> lNow,
                    made |-> IF limiterStore[ip] = <<>> THEN 0
                             ELSE limiterStore[ip][1].count] >>]
    /\ UNCHANGED <<limiterStore, lNow, lLast, lHist>>
    /\ UNCHANGED <<travVars, geomVars, srvVars, svcVars>>

\* if (path === '/health') { res.writeHead(200); ...; return; }
EmbeddedHealth ==
    /\ healthLog' = [healthLog EXCEPT !["embedded"] =
          << [status |-> 200, body |-> "ok", timestamp |-> now,
              made |-> IF rateLimitStore = <<>> THEN 0
                       ELSE rateLimitStore[1].count] >>]
    /\ UNCHANGED <<limiterStore, lNow, lLast, lHist>>
    /\ UNCHANGED <<travVars, geomVars, srvVars, svcVars>>

\* Both servers under load: the Express client "a" has used its window,
\* the embedded server is about to serve one search.
HealthInit ==
    /\ req = << Request(Given(32085300), Given(34781800), Given(1),
                        <<"cafe">>, Missing, Missing) >>
    /\ apiKey = FALSE
    /\ rateLimitStore \in
          {<< [count |-> c, windowStart |-> 0] >> :
              c \in {RATE_LIMIT - 1, RATE_LIMIT}}
    /\ now = 0
    /\ hpc = [r \in DOMAIN req |-> "new"]
    /\ hloc = [r \in DOMAIN req |-> NoLocals]
    /\ trav = [r \in DOMAIN req |-> NoTraversal]
    /\ res = [r \in DOMAIN req |-> <<>>]
    /\ shist = [r \in DOMAIN req |-> NoHistory]
    /\ LET data == [count |-> RATE_LIMIT, windowStart |-> 0]
       IN  /\ limiterStore = [ip \in IPs |->
                 IF ip = "a" THEN << data >> ELSE <<>>]
           /\ lLast = << Answer("a", data, 0) >>
           /\ lHist = [ip \in IPs |->
                 IF ip = "a"
                 THEN << [first |-> 0, total |-> RATE_LIMIT] >> ELSE <<>>]
    /\ lNow = 0
    /\ healthLog = [s \in {"express", "embedded"} |-> <<>>]
    /\ TravIdle
    /\ GeomIdle
    /\ SvcIdle
HealthNext ==
    \/ ExpressHealth
    \/ EmbeddedHealth
    \/ RateLimited
    \/ SrvNext
SpecHealth == HealthInit /\ [][HealthNext]_vars

\* C27: /health is not rate limited on either server: a step that answers
\* /health leaves every rate-limit entry of both servers (and the limiter's
\* last response) as it was, and the answer is 200 {status: 'ok'} however
\* many requests the client has made.
C27_HealthExempt ==
    [][
    \A s \in DOMAIN healthLog :
        healthLog'[s] /= healthLog[s] =>
            /\ limiterStore' = limiterStore
            /\ rateLimitStore' = rateLimitStore
            /\ lLast' = lLast
            /\ res' = res
            /\ healthLog'[s][1].status = 200
            /\ healthLog'[s][1].body = "ok"
    ]_vars
C27_Witness ==
    /\ healthLog["express"] /= <<>>
    /\ healthLog["express"][1].made = RATE_LIMIT + 1
    /\ healthLog["express"][1].status = 200
    /\ limiterStore["a"][1].count = RATE_LIMIT + 1
    /\ lLast[1].status = 429
    /\ healthLog["embedded"] /= <<>>
    /\ healthLog["embedded"][1].made = RATE_LIMIT + 1
    /\ healthLog["embedded"][1].status = 200
    /\ rateLimitStore[1].count = RATE_LIMIT + 1
    /\ res[1] /= <<>> /\ res[1][1].status = 429

\* ------------------------------------------------------------------------
\* The location and places services of the Express server
\* ------------------------------------------------------------------------
\* A string is the sequence of its characters; an optional argument is <<>>
\* when undefined and <<v>> when given.
\* String.prototype.trim()
Trim(s) ==
    LET inked == {i \in 1..Len(s) : s[i] /= " "}
    IN  IF inked = {} THEN <<>>
        ELSE SubSeq(s, CHOOSE i \in inked : \A j \in inked : i <= j,
                       CHOOSE i \in inked : \A j \in inked : i >= j)

\* validateCoordinates(latitude, longitude), in micro-degrees
ValidateCoordinates(latitude, longitude) ==
    LET lat == ParseFloat(latitude)
        lng == ParseFloat(longitude)
    IN  IF IsNaN(lat) \/ IsNaN(lng) THEN FALSE
        ELSE /\ lat[1] >= 0 - 90000000 /\ lat[1] <= 90000000
             /\ lng[1] >= 0 - 180000000 /\ lng[1] <= 180000000

\* What processLocation returns or throws; `geocoded` lists the addresses
\* sent to the Geocoding API.
Located(latitude, longitude, formattedAddress, calls) ==
    [ok |-> TRUE, latitude |-> latitude, longitude |-> longitude,
     formattedAddress |-> formattedAddress, error |-> "",
     geocoded |-> calls]
Thrown(error, calls) ==
    [ok |-> FALSE, latitude |-> <<>>, longitude |-> <<>>,
     formattedAddress |-> <<>>, error |-> error, geocoded |-> calls]

\* geocodeCity(cityName) when the API does `outcome`
GeocodeCity(cityName, outcome) ==
    IF outcome.kind = "throws"
    THEN Thrown("Geocoding error", << cityName >>)
    ELSE IF outcome.status = "OK" /\ Len(outcome.results) > 0
    THEN Located(<< outcome.results[1].lat >>, << outcome.results[1].lng >>,
                 << outcome.results[1].formatted_address >>, << cityName >>)
    ELSE IF outcome.status = "ZERO_RESULTS"
    THEN Thrown("City not found", << cityName >>)
    ELSE Thrown("Geocoding failed", << cityName >>)

\* processLocation({ city, latitude, longitude })
ProcessLocation_fallback(city, latitude, longitude, outcome) ==
    LET hasCoordinates == latitude /= <<>> /\ longitude /= <<>>
        hasCity == city /= <<>> /\ Len(Trim(city[1])) > 0
    IN  IF ~hasCoordinates /\ ~hasCity
        THEN Thrown("Either city name or coordinates must be provided", <<>>)
        ELSE IF hasCoordinates
                /\ (ValidateCoordinates(latitude, longitude) \/ ~hasCity)
        THEN IF ~ValidateCoordinates(latitude, longitude)
             THEN Thrown("Invalid coordinates. Latitude must be between -90 and 90, longitude must be between -180 and 180",
                         <<>>)
             ELSE Located(ParseFloat(latitude), ParseFloat(longitude),
                          << latitude, longitude >>, <<>>)
        ELSE GeocodeCity(city[1], outcome)
ProcessLocation(city, latitude, longitude, outcome) ==
    LET hasCoordinates == latitude /= <<>> /\ longitude /= <<>>
        hasCity == city /= <<>> /\ Len(Trim(city[1])) > 0
    IN  IF ~hasCoordinates /\ ~hasCity
        THEN Thrown("Either city name or coordinates must be provided", <<>>)
        ELSE IF hasCoordinates
        THEN IF ~ValidateCoordinates(latitude, longitude)
             THEN Thrown("Invalid coordinates. Latitude must be between -90 and 90, longitude must be between -180 and 180",
                         <<>>)
             ELSE Located(ParseFloat(latitude), ParseFloat(longitude),
                          << latitude, longitude >>, <<>>)
        ELSE GeocodeCity(city[1], outcome)

\* await processLocation(...), with what the Geocoding API may do with an
\* address
CallProcessLocation ==
    /\ svcCall /= <<>> /\ svcCall[1].fn = "processLocation"
    /\ svcRet = <<>>
    /\ \E outcome \in
          {[kind |-> "response", status |-> "OK",
            results |-> << [lat |-> 32085300, lng |-> 34781800,
                            formatted_address |-> "Tel Aviv-Yafo"] >>],
           [kind |-> "response", status |-> "OK", results |-> <<>>],
           [kind |-> "response", status |-> "ZERO_RESULTS", results |-> <<>>],
           [kind |-> "response", status |-> "REQUEST_DENIED",
            results |-> <<>>],
           [kind |-> "throws", status |-> "", results |-> <<>>]} :
        svcRet' = << ProcessLocation(svcCall[1].city, svcCall[1].latitude,
                                     svcCall[1].longitude, outcome) >>
    /\ UNCHANGED svcCall
    /\ UNCHANGED <<travVars, geomVars, srvVars, limVars>>

\* ------------------------------------------------------------------------
\* Opening hours (part_001 176-252)
\* ------------------------------------------------------------------------
\* opening_hours is undefined, or an object whose weekday_text is undefined
\* or an array of lines starting with Sunday. A line is given as the tests
\* of isClosedOnSaturday read it: empty or not, whether it contains a
\* "closed" keyword, whether it contains "24 hours", and the matches of the
\* time pattern in order, each with its six groups (a period is "am", "pm"
\* or "" when absent). The values are named after their Saturday.
OpeningHours ==
    LET text(closedWord, allDay, ranges) ==
            [empty |-> FALSE, closedWord |-> closedWord, allDay |-> allDay,
             ranges |-> ranges]
        range(oh, om, op, ch, cm, cp) ==
            [openHour |-> oh, openMin |-> om, openPeriod |-> op,
             closeHour |-> ch, closeMin |-> cm, closePeriod |-> cp]
        daytime == text(FALSE, FALSE, << range(9, 0, "am", 5, 0, "pm") >>)
        week(saturday) ==
            << [weekday_text |->
                  << << daytime, daytime, daytime, daytime, daytime, daytime,
                        saturday >> >>] >>
    IN  [none |-> <<>>,
         noWeekdayText |-> << [weekday_text |-> <<>>] >>,
         noLines |-> << [weekday_text |-> << <<>> >>] >>,
         sixLines |->
            << [weekday_text |->
                  << << daytime, daytime, daytime, daytime, daytime,
                        daytime >> >>] >>,
         emptyLine |-> week([empty |-> TRUE, closedWord |-> FALSE,
                             allDay |-> FALSE, ranges |-> <<>>]),
         closed |-> week(text(TRUE, FALSE, <<>>)),
         allDay |-> week(text(FALSE, TRUE, <<>>)),
         noTimes |-> week(text(FALSE, FALSE, <<>>)),
         daytime |-> week(daytime),
         evening |-> week(text(FALSE, FALSE,
                               << range(8, 30, "pm", 11, 0, "pm") >>)),
         split |-> week(text(FALSE, FALSE,
                             << range(6, 0, "", 7, 30, ""),
                                range(17, 30, "", 23, 0, "") >>))]

\* isClosedOnSaturday(openingHours)
IsClosedOnSaturday(openingHours) ==
    IF openingHours = <<>> \/ openingHours[1].weekday_text = <<>>
    THEN TRUE
    ELSE LET weekday_text == openingHours[1].weekday_text[1]
             to24(hour, period) ==
                 IF period = "pm" /\ hour /= 12 THEN hour + 12
                 ELSE IF period = "am" /\ hour = 12 THEN 0
                 ELSE hour
             overlaps(r) ==
                 LET openTime == to24(r.openHour, r.openPeriod) * 60
                                    + r.openMin
                     closeTime == to24(r.closeHour, r.closePeriod) * 60
                                    + r.closeMin
                 IN  openTime <= 17 * 60 /\ closeTime >= 8 * 60
         IN  IF Len(weekday_text) < 7 THEN TRUE
             ELSE IF weekday_text[7].empty THEN TRUE
             ELSE IF weekday_text[7].closedWord THEN TRUE
             ELSE IF weekday_text[7].allDay THEN FALSE
             ELSE IF weekday_text[7].ranges = <<>> THEN TRUE
             ELSE ~(\E i \in 1..Len(weekday_text[7].ranges) :
                        overlaps(weekday_text[7].ranges[i]))

\* isClosedOnSaturday(place.opening_hours)
CallIsClosedOnSaturday ==
    /\ svcCall /= <<>> /\ svcCall[1].fn = "isClosedOnSaturday"
    /\ svcRet = <<>>
    /\ svcRet' = << [value |-> IsClosedOnSaturday(svcCall[1].openingHours)] >>
    /\ UNCHANGED svcCall
    /\ UNCHANGED <<travVars, geomVars, srvVars, limVars>>

\* ------------------------------------------------------------------------
\* searchPlaces (part_001 147-160, 260-556; config.js 24-28)
\* ------------------------------------------------------------------------
\* Ratings are in tenths, radii in kilometres.
config ==
    [defaultRadius |-> 15, maxRadius |-> 50, defaultMinRating |-> 25,
     defaultMinReviews |-> 1]

\* Largest r with r * r <= n, for lo * lo <= n < hi * hi
RECURSIVE SqrtBetween(_, _, _)
SqrtBetween(n, lo, hi) ==
    IF hi - lo <= 1 THEN lo
    ELSE LET mid == (lo + hi) \div 2
         IN  IF mid * mid <= n THEN SqrtBetween(n, mid, hi)
             ELSE SqrtBetween(n, lo, mid)
\* calculateDistance(lat1, lng1, lat2, lng2) in hundredths of a kilometre
\* (the result is rounded to two decimals), for points up to 40 km apart:
\* R = 6371 km gives 111.2 km per degree; the haversine of a short arc is
\* taken as the plane distance with the longitude scaled by cos(lat1).
CalculateDistance(lat1, lng1, lat2, lng2) ==
    LET north == (Abs(lat2 - lat1) * 1112) \div 10000
        east == (((Abs(lng2 - lng1) * CosE4(lat1)) \div 10000) * 1112)
                    \div 10000
        metres == SqrtBetween(north * north + east * east, 0, 46000)
    IN  (metres + 5) \div 10

\* formatPlace(place, searchLat, searchLng): the fields that depend on the
\* place (not the phone, photos and url)
FormatPlaceDetails(place, searchLat, searchLng) ==
    [name |-> place.name,
     rating |-> OrZero(place.rating),
     reviewCount |-> OrZero(place.user_ratings_total),
     distance |-> CalculateDistance(searchLat, searchLng,
                                    place.lat, place.lng),
     openingHours |-> IF place.opening_hours = <<>>
                         \/ place.opening_hours[1].weekday_text = <<>>
                      THEN <<>>
                      ELSE place.opening_hours[1].weekday_text[1],
     placeId |-> place.place_id]

Found(places) == [ok |-> TRUE, places |-> places, error |-> ""]
Failed(error) == [ok |-> FALSE, places |-> <<>>, error |-> error]

\* The do-while loop over the pages of one type: page pageCount + 1 is
\* fetched, then the loop goes on while there is a token and pageCount < 3
\* (maxPages). A page is a response of placesNearby or its timeout.
RECURSIVE FetchPages(_, _, _)
FetchPages(pages, pageCount, allPlaces) ==
    LET response == IF pageCount + 1 <= Len(pages) THEN pages[pageCount + 1]
                    ELSE [kind |-> "response", status |-> "ZERO_RESULTS",
                          results |-> <<>>, next_page_token |-> FALSE]
    IN  IF response.kind = "timeout" THEN Failed("timeout")
        ELSE IF response.status /= "OK" /\ response.status /= "ZERO_RESULTS"
        THEN Failed(response.status)
        ELSE IF response.next_page_token /\ pageCount + 1 < 3
        THEN FetchPages(pages, pageCount + 1, allPlaces \o response.results)
        ELSE Found(allPlaces \o response.results)

\* for (const placeType of placeTypes)
RECURSIVE FetchTypes(_, _, _)
FetchTypes(placeTypes, world, allPlaces) ==
    IF placeTypes = <<>> THEN Found(allPlaces)
    ELSE LET got == FetchPages(world.pages[Head(placeTypes)], 0, allPlaces)
         IN  IF ~got.ok THEN got
             ELSE FetchTypes(Tail(placeTypes), world, got.places)

\* uniquePlacesMap: the first entry of each place_id, in order
RECURSIVE UniqueIds(_, _)
UniqueIds(kept, ids) ==
    IF ids = <<>> THEN kept
    ELSE UniqueIds(IF \E i \in 1..Len(kept) : kept[i] = Head(ids)
                   THEN kept ELSE Append(kept, Head(ids)), Tail(ids))

\* for (const place of places) { details = await getPlaceDetails(...) }:
\* getPlaceDetails returns the result, or null, or throws on a timeout
RECURSIVE FetchDetails(_, _, _)
FetchDetails(ids, world, placesWithDetails) ==
    IF ids = <<>> THEN Found(placesWithDetails)
    ELSE LET answer == world.details[Head(ids)]
         IN  IF answer.kind = "timeout" THEN Failed("timeout")
             ELSE FetchDetails(Tail(ids), world,
                     IF answer.kind = "OK"
                     THEN Append(placesWithDetails, answer.result)
                     ELSE placesWithDetails)

\* The predicate of placesWithDetails.filter
KeepsPlace(place, filterClosedSaturday, minRatingFilter, minReviewsFilter) ==
    /\ filterClosedSaturday => IsClosedOnSaturday(place.opening_hours)
    /\ OrZero(place.rating) >= minRatingFilter
    /\ OrZero(place.user_ratings_total) >= minReviewsFilter

\* The errors leaving the catch block
Rethrown(error) ==
    IF error = "timeout" THEN "Request timeout"
    ELSE IF error = "OVER_QUERY_LIMIT" THEN "RATE_LIMIT_EXCEEDED"
    ELSE "Places search error"

\* searchPlaces({latitude, longitude, radius, minRating, minReviews, type,
\* closedSaturday}) against the provider `world`
SearchPlaces(a, world) ==
    LET searchRadius == IF a.radius = <<>> \/ a.radius[1] = 0
                        THEN config.defaultRadius ELSE a.radius[1]
        minRatingFilter == IF a.minRating /= <<>> THEN a.minRating[1]
                           ELSE config.defaultMinRating
        minReviewsFilter == IF a.minReviews /= <<>> THEN a.minReviews[1]
                            ELSE config.defaultMinReviews
        placeTypes == IF a.type = <<"restaurant">> THEN <<"restaurant">>
                      ELSE IF a.type = <<"cafe">> THEN <<"cafe">>
                      ELSE <<"restaurant", "cafe">>
        allPlaces == FetchTypes(placeTypes, world, <<>>)
        details == FetchDetails(UniqueIds(<<>>, allPlaces.places), world, <<>>)
        placesWithDetails == details.places
        kept == {i \in 1..Len(placesWithDetails) :
                    KeepsPlace(placesWithDetails[i], a.closedSaturday,
                               minRatingFilter, minReviewsFilter)}
        filteredPlaces ==
            [k \in 1..Cardinality(kept) |->
                placesWithDetails[CHOOSE i \in kept :
                    Cardinality({j \in kept : j < i}) = k - 1]]
        formattedPlaces ==
            [k \in 1..Len(filteredPlaces) |->
                FormatPlaceDetails(filteredPlaces[k], a.latitude, a.longitude)]
        sorted == Sorted(formattedPlaces)
    IN  IF searchRadius > config.maxRadius THEN Failed("Radius cannot exceed")
        ELSE IF ~allPlaces.ok THEN Failed(Rethrown(allPlaces.error))
        ELSE IF allPlaces.places = <<>> THEN Found(<<>>)
        ELSE IF ~details.ok THEN Failed(Rethrown(details.error))
        ELSE Found(SubSeq(sorted, 1,
                          IF Len(sorted) < 50 THEN Len(sorted) ELSE 50))

\* The search centre of the calls, and the results of Place Details for
\* the places around it, by place_id.
Centre == [lat |-> 32085300, lng |-> 34781800]
AllDetails ==
    LET details(id, name, rating, reviews, hours, north, east) ==
            [place_id |-> id, name |-> name, rating |-> rating,
             user_ratings_total |-> reviews, opening_hours |-> hours,
             lat |-> Centre.lat + north, lng |-> Centre.lng + east]
    IN  << details(1, "A", <<45>>, <<300>>, OpeningHours.none, 10000, 0),
           details(2, "B", <<45>>, <<300>>, OpeningHours.noWeekdayText,
                   0, 5000),
           details(3, "C", <<40>>, <<50>>, OpeningHours.closed, 0 - 20000, 0),
           details(4, "D", <<48>>, <<500>>, OpeningHours.daytime, 1000, 1000),
           details(5, "E", <<>>, <<>>, OpeningHours.evening, 0, 0 - 30000),
           details(6, "F", <<45>>, <<300>>, OpeningHours.allDay,
                   30000, 30000),
           details(7, "G", <<45>>, <<300>>, OpeningHours.closed,
                   0 - 60000, 60000) >>

\* What the provider may do: the pages of Nearby Search per type, and the
\* answer of Place Details per place ("null": a status other than OK, or a
\* network error).
Worlds ==
    LET page(status, results, next_page_token) ==
            [kind |-> "response", status |-> status, results |-> results,
             next_page_token |-> next_page_token]
        timeout == [kind |-> "timeout", status |-> "", results |-> <<>>,
                    next_page_token |-> FALSE]
        detailsOk == [id \in 1..Len(AllDetails) |->
                        [kind |-> "OK", result |-> AllDetails[id]]]
    IN  << [pages |-> [restaurant |-> << page("OK", <<1, 3, 4>>, TRUE),
                                         page("OK", <<5, 3>>, FALSE) >>,
                       cafe |-> << page("OK", <<2, 4, 6, 7>>, FALSE) >>],
            details |-> detailsOk],
           [pages |-> [restaurant |-> << page("ZERO_RESULTS", <<>>, FALSE) >>,
                       cafe |-> << page("ZERO_RESULTS", <<>>, FALSE) >>],
            details |-> detailsOk],
           [pages |-> [restaurant |->
                          << page("OK", <<1>>, TRUE),
                             page("OVER_QUERY_LIMIT", <<>>, FALSE) >>,
                       cafe |-> << page("REQUEST_DENIED", <<>>, FALSE) >>],
            details |-> detailsOk],
           [pages |-> [restaurant |-> << page("OK", <<1, 3>>, FALSE) >>,
                       cafe |-> << timeout >>],
            details |-> [detailsOk EXCEPT ![3].kind = "null"]],
           [pages |-> [restaurant |-> << page("OK", <<7>>, TRUE),
                                         page("OK", <<3>>, TRUE),
                                         page("OK", <<1>>, TRUE),
                                         page("OK", <<4>>, FALSE) >>,
                       cafe |-> << page("OK", <<2, 7>>, FALSE) >>],
            details |-> detailsOk],
           [pages |-> [restaurant |-> << page("OK", <<1, 3, 4>>, FALSE) >>,
                       cafe |-> << page("OK", <<2>>, FALSE) >>],
            details |-> [detailsOk EXCEPT ![4].kind = "timeout"]] >>

\* await searchPlaces(...)
CallSearchPlaces ==
    /\ svcCall /= <<>> /\ svcCall[1].fn = "searchPlaces"
    /\ svcRet = <<>>
    /\ \E w \in 1..Len(Worlds) :
        LET r == SearchPlaces(svcCall[1], Worlds[w])
        IN  svcRet' = << [ok |-> r.ok, places |-> r.places,
                          error |-> r.error, world |-> w] >>
    /\ UNCHANGED svcCall
    /\ UNCHANGED <<travVars, geomVars, srvVars, limVars>>

\* ------------------------------------------------------------------------
\* Query parameter validation (part_002 10-196)
\* ------------------------------------------------------------------------
\* A query value is Missing (undefined), Empty (''), Garbled (text that
\* parses to NaN) or Given(x). radius, minRating and minReviews are in
\* tenths, latitude and longitude in micro-degrees.
Empty == << <<>>, <<>> >>

\* validateRadius(radius)
ValidateRadius_exclusive(radius) ==
    IF radius = Missing \/ radius = Empty
    THEN [valid |-> TRUE, value |-> <<>>, error |-> ""]
    ELSE LET parsed == ParseFloat(radius)
         IN  IF IsNaN(parsed)
             THEN [valid |-> FALSE, value |-> <<>>,
                   error |-> "Radius must be a valid number"]
             ELSE IF parsed[1] <= 10 \/ parsed[1] >= 500
             THEN [valid |-> FALSE, value |-> <<>>,
                   error |-> "Radius must be between 1 and 50 km"]
             ELSE [valid |-> TRUE, value |-> parsed, error |-> ""]
ValidateRadius(radius) ==
    IF radius = Missing \/ radius = Empty
    THEN [valid |-> TRUE, value |-> <<>>, error |-> ""]
    ELSE LET parsed == ParseFloat(radius)
         IN  IF IsNaN(parsed)
             THEN [valid |-> FALSE, value |-> <<>>,
                   error |-> "Radius must be a valid number"]
             ELSE IF parsed[1] < 10 \/ parsed[1] > 500
             THEN [valid |-> FALSE, value |-> <<>>,
                   error |-> "Radius must be between 1 and 50 km"]
             ELSE [valid |-> TRUE, value |-> parsed, error |-> ""]

\* validateMinRating(minRating)
ValidateMinRating(minRating) ==
    IF minRating = Missing \/ minRating = Empty
    THEN [valid |-> TRUE, value |-> <<>>, error |-> ""]
    ELSE LET parsed == ParseFloat(minRating)
         IN  IF IsNaN(parsed)
             THEN [valid |-> FALSE, value |-> <<>>,
                   error |-> "Minimum rating must be a valid number"]
             ELSE IF parsed[1] < 10 \/ parsed[1] > 50
             THEN [valid |-> FALSE, value |-> <<>>,
                   error |-> "Minimum rating must be between 1.0 and 5.0"]
             ELSE [valid |-> TRUE, value |-> parsed, error |-> ""]

\* validateMinReviews(minReviews); parseInt(text, 10) reads the digits
\* before the decimal point, and the value returned is a whole number
ValidateMinReviews(minReviews) ==
    IF minReviews = Missing \/ minReviews = Empty
    THEN [valid |-> TRUE, value |-> <<>>, error |-> ""]
    ELSE LET text == ParseFloat(minReviews)
             parsed == IF IsNaN(text) THEN <<>>
                       ELSE IF text[1] >= 0 THEN << text[1] \div 10 >>
                       ELSE << 0 - ((0 - text[1]) \div 10) >>
         IN  IF IsNaN(parsed)
             THEN [valid |-> FALSE, value |-> <<>>,
                   error |-> "Minimum reviews must be a valid number"]
             ELSE IF parsed[1] < 1
             THEN [valid |-> FALSE, value |-> <<>>,
                   error |-> "Minimum reviews must be at least 1"]
             ELSE [valid |-> TRUE, value |-> parsed, error |-> ""]

\* validateType(type); a type is undefined or a sequence of characters
ValidateType(type) ==
    IF type = <<>> \/ type = << <<>> >>
    THEN [valid |-> TRUE, value |-> <<>>, error |-> ""]
    ELSE LET lower == [c \in {"B", "C", "R"} |->
                          CASE c = "B" -> "b" [] c = "C" -> "c"
                            [] c = "R" -> "r"]
             toLowerCase ==
                 [i \in 1..Len(type[1]) |->
                     IF type[1][i] \in DOMAIN lower THEN lower[type[1][i]]
                     ELSE type[1][i]]
             normalized == Trim(toLowerCase)
         IN  IF normalized = <<"b", "o", "t", "h">>
             THEN [valid |-> TRUE, value |-> <<>>, error |-> ""]
             ELSE IF /\ normalized /= <<"r", "e", "s", "t", "a", "u", "r",
                                        "a", "n", "t">>
                     /\ normalized /= <<"c", "a", "f", "e">>
             THEN [valid |-> FALSE, value |-> <<>>,
                   error |-> "Type must be either \"restaurant\", \"cafe\", or \"both\""]
             ELSE [valid |-> TRUE, value |-> << normalized >>, error |-> ""]

\* validateLocation(city, latitude, longitude)
ValidateLocation(city, latitude, longitude) ==
    LET hasCity == city /= <<>> /\ city[1] /= <<>>
                       /\ Len(Trim(city[1])) > 0
        hasCoordinates == latitude /= Missing /\ longitude /= Missing
        lat == ParseFloat(latitude)
        lng == ParseFloat(longitude)
        Invalid(error) ==
            [valid |-> FALSE, city |-> <<>>, latitude |-> <<>>,
             longitude |-> <<>>, error |-> error]
    IN  IF ~hasCity /\ ~hasCoordinates
        THEN Invalid("Either city name or coordinates (latitude and longitude) must be provided")
        ELSE IF hasCoordinates
        THEN IF IsNaN(lat) \/ IsNaN(lng)
             THEN Invalid("Latitude and longitude must be valid numbers")
             ELSE IF lat[1] < 0 - 90000000 \/ lat[1] > 90000000
             THEN Invalid("Latitude must be between -90 and 90")
             ELSE IF lng[1] < 0 - 180000000 \/ lng[1] > 180000000
             THEN Invalid("Longitude must be between -180 and 180")
             ELSE [valid |-> TRUE, city |-> IF hasCity THEN city ELSE <<>>,
                   latitude |-> lat, longitude |-> lng, error |-> ""]
        ELSE [valid |-> TRUE, city |-> city, latitude |-> <<>>,
              longitude |-> <<>>, error |-> ""]

\* validateQueryParameters(query): the errors in the order the validators
\* run, and params (absent from an invalid result) with the defined values
ValidateQueryParameters(query) ==
    LET locationValidation ==
            ValidateLocation(query.city, query.latitude, query.longitude)
        radiusValidation == ValidateRadius(query.radius)
        ratingValidation == ValidateMinRating(query.minRating)
        reviewsValidation == ValidateMinReviews(query.minReviews)
        typeValidation == ValidateType(query.type)
        Pushed(v) == IF v.valid THEN <<>> ELSE << v.error >>
        errors == Pushed(locationValidation) \o Pushed(radiusValidation)
                    \o Pushed(ratingValidation) \o Pushed(reviewsValidation)
                    \o Pushed(typeValidation)
        Copied(v) == IF v.valid THEN v.value ELSE <<>>
        params ==
            [city |-> IF locationValidation.valid
                      THEN locationValidation.city ELSE <<>>,
             latitude |-> IF locationValidation.valid
                          THEN locationValidation.latitude ELSE <<>>,
             longitude |-> IF locationValidation.valid
                           THEN locationValidation.longitude ELSE <<>>,
             radius |-> Copied(radiusValidation),
             minRating |-> Copied(ratingValidation),
             minReviews |-> Copied(reviewsValidation),
             type |-> Copied(typeValidation)]
    IN  IF Len(errors) > 0
        THEN [valid |-> FALSE, errors |-> errors, params |-> <<>>]
        ELSE [valid |-> TRUE, errors |-> <<>>, params |-> << params >>]

\* validateQueryParameters(req.query)
CallValidateQueryParameters ==
    /\ svcCall /= <<>> /\ svcCall[1].fn = "validateQueryParameters"
    /\ svcRet = <<>>
    /\ svcRet' = << ValidateQueryParameters(svcCall[1].query) >>
    /\ UNCHANGED svcCall
    /\ UNCHANGED <<travVars, geomVars, srvVars, limVars>>

\* The calls made: the arguments the route handler may pass.
ServiceCalls ==
    {[fn |-> "processLocation", city |-> c, latitude |-> la,
      longitude |-> lo] :
        c \in {<<>>, << <<>> >>, << <<" ", " ">> >>, << <<"T", "A">> >>,
               << <<" ", "T", "A", " ">> >>, << <<"X">> >>},
        la \in {Missing, Garbled, Given(95000000), Given(0 - 90000000),
                Given(32085300)},
        lo \in {Missing, Garbled, Given(180000001), Given(34781800)}}
    \cup
    {[fn |-> "isClosedOnSaturday", openingHours |-> OpeningHours[h]] :
        h \in DOMAIN OpeningHours}
    \cup
    {[fn |-> "searchPlaces", latitude |-> Centre.lat,
      longitude |-> Centre.lng, radius |-> r, minRating |-> mr,
      minReviews |-> mv, type |-> ty, closedSaturday |-> cs] :
        r \in {<<>>, <<0>>, <<10>>, <<51>>},
        mr \in {<<>>, <<0>>, <<45>>},
        mv \in {<<>>, <<100>>},
        ty \in {<<>>, <<"restaurant">>, <<"cafe">>},
        cs \in BOOLEAN}
    \cup
    {[fn |-> "validateQueryParameters",
      query |-> [city |-> c, latitude |-> la, longitude |-> lo,
                 radius |-> r, minRating |-> mr, minReviews |-> mv,
                 type |-> ty]] :
        c \in {<<>>, << <<" ">> >>, << <<"T", "A">> >>},
        la \in {Missing, Garbled, Given(0 - 90000000), Given(90000001),
                Given(32085300)},
        lo \in {Missing, Garbled, Given(180000000), Given(0 - 180000001)},
        r \in {Missing, Empty, Garbled, Given(9), Given(10), Given(500),
               Given(501)},
        mr \in {Missing, Empty, Given(9), Given(10), Given(50), Given(51)},
        mv \in {Missing, Empty, Garbled, Given(0 - 5), Given(9), Given(10),
                Given(19)},
        ty \in {<<>>, << <<" ", "C", "a", "f", "e">> >>,
                << <<"b", "a", "r">> >>}}

SvcInit ==
    /\ svcCall \in {<< c >> : c \in ServiceCalls}
    /\ svcRet = <<>>
    /\ TravIdle
    /\ GeomIdle
    /\ SrvIdle
    /\ LimIdle
SvcNext ==
    \/ CallProcessLocation
    \/ CallIsClosedOnSaturday
    \/ CallSearchPlaces
    \/ CallValidateQueryParameters
SpecService == SvcInit /\ [][SvcNext]_vars

\* ------------------------------------------------------------------------
\* Properties of the services
\* ------------------------------------------------------------------------
\* C29: processLocation with both coordinates given uses them when they are
\* in range, ignoring the city and making no geocoding call, and fails with
\* 'Invalid coordinates...' without falling back to the city when they are
\* not; without both coordinates it geocodes a non-blank city, and fails
\* with 'Either city name or coordinates must be provided' when there is
\* none.
C29_LocationPrecedence ==
    (svcCall /= <<>> /\ svcCall[1].fn = "processLocation" /\ svcRet /= <<>>)
    =>
    LET c == svcCall[1]
        r == svcRet[1]
        both == c.latitude /= <<>> /\ c.longitude /= <<>>
        number(p) == p /= <<>> /\ p[1] /= <<>>
        inRange == /\ number(c.latitude) /\ number(c.longitude)
                   /\ c.latitude[1][1] \in (0 - 90000000)..90000000
                   /\ c.longitude[1][1] \in (0 - 180000000)..180000000
        nonBlank == c.city /= <<>>
                    /\ \E i \in 1..Len(c.city[1]) : c.city[1][i] /= " "
    IN  /\ (both /\ inRange) =>
              /\ r.ok
              /\ r.latitude = c.latitude[1]
              /\ r.longitude = c.longitude[1]
              /\ r.geocoded = <<>>
        /\ (both /\ ~inRange) =>
              /\ ~r.ok
              /\ r.error = "Invalid coordinates. Latitude must be between -90 and 90, longitude must be between -180 and 180"
              /\ r.geocoded = <<>>
        /\ (~both /\ nonBlank) => r.geocoded = << c.city[1] >>
        /\ (~both /\ ~nonBlank) =>
              /\ ~r.ok
              /\ r.error = "Either city name or coordinates must be provided"
              /\ r.geocoded = <<>>
C29_Witness ==
    /\ svcCall /= <<>> /\ svcCall[1].fn = "processLocation"
    /\ svcCall[1].city = << <<"T", "A">> >>
    /\ svcCall[1].latitude = Given(95000000)
    /\ svcCall[1].longitude = Given(34781800)
    /\ svcRet /= <<>>
    /\ ~svcRet[1].ok
    /\ svcRet[1].geocoded = <<>>
    /\ svcRet[1].error = "Invalid coordinates. Latitude must be between -90 and 90, longitude must be between -180 and 180"

\* C30: isClosedOnSaturday returns false when opening-hours data is
\* missing (no openingHours object or no weekday_text), and searchPlaces
\* with the Saturday filter enabled returns no place whose details lack
\* opening-hours data.
C30_MissingHoursExcluded ==
    LET missing(h) == h = <<>> \/ h[1].weekday_text = <<>>
    IN  /\ (svcCall /= <<>> /\ svcCall[1].fn = "isClosedOnSaturday"
                /\ svcRet /= <<>> /\ missing(svcCall[1].openingHours))
           => svcRet[1].value = FALSE
        /\ (svcCall /= <<>> /\ svcCall[1].fn = "searchPlaces"
                /\ svcRet /= <<>> /\ svcCall[1].closedSaturday)
           => \A i \in 1..Len(svcRet[1].places) :
                ~missing(Worlds[svcRet[1].world]
                            .details[svcRet[1].places[i].placeId]
                            .result.opening_hours)

\* C31: the list returned by searchPlaces is ordered by distance from the
\* search centre, closest first.
C31_SortedByDistance ==
    (svcCall /= <<>> /\ svcCall[1].fn = "searchPlaces" /\ svcRet /= <<>>
        /\ svcRet[1].ok)
    => \A i \in 1..(Len(svcRet[1].places) - 1) :
          svcRet[1].places[i].distance <= svcRet[1].places[i + 1].distance

\* C32 (as stated): validateQueryParameters rejects the radius iff a
\* supplied radius is not a number in [1, 50], the minimum rating iff a
\* supplied one is not in [1.0, 5.0], the minimum reviews iff a supplied
\* one is not at least 1, and the location iff nothing is provided or a
\* supplied latitude is not in [-90, 90] or a supplied longitude is not in
\* [-180, 180]; an absent or empty radius, rating or review count is
\* accepted with no value; the result is valid iff no validator rejects,
\* and otherwise holds one error per rejecting validator and no params.
C32_ValidatorsExact ==
    (svcCall /= <<>> /\ svcCall[1].fn = "validateQueryParameters"
        /\ svcRet /= <<>>)
    => LET q == svcCall[1].query
           r == svcRet[1]
           Absent(p) == p = Missing \/ p = Empty
           Within(p, lo, hi) ==
               p /= Missing /\ p[1] /= <<>> /\ lo <= p[1][1] /\ p[1][1] <= hi
           AtLeast(p, lo) == p /= Missing /\ p[1] /= <<>> /\ lo <= p[1][1]
           Says(errs) == \E i \in DOMAIN r.errors : r.errors[i] \in errs
           radiusRejected ==
               Says({"Radius must be a valid number",
                     "Radius must be between 1 and 50 km"})
           ratingRejected ==
               Says({"Minimum rating must be a valid number",
                     "Minimum rating must be between 1.0 and 5.0"})
           reviewsRejected ==
               Says({"Minimum reviews must be a valid number",
                     "Minimum reviews must be at least 1"})
           locationRejected ==
               Says({"Either city name or coordinates (latitude and longitude) must be provided",
                     "Latitude and longitude must be valid numbers",
                     "Latitude must be between -90 and 90",
                     "Longitude must be between -180 and 180"})
           typeRejected ==
               Says({"Type must be either \"restaurant\", \"cafe\", or \"both\""})
           hasCity == q.city /= <<>> /\ \E i \in DOMAIN q.city[1] :
                                            q.city[1][i] /= " "
           bothGiven == q.latitude /= Missing /\ q.longitude /= Missing
           latOk == q.latitude = Missing
                       \/ Within(q.latitude, 0 - 90000000, 90000000)
           lngOk == q.longitude = Missing
                       \/ Within(q.longitude, 0 - 180000000, 180000000)
           One(b) == IF b THEN 1 ELSE 0
       IN  /\ radiusRejected
                <=> ~(Absent(q.radius) \/ Within(q.radius, 10, 500))
           /\ ratingRejected
                <=> ~(Absent(q.minRating) \/ Within(q.minRating, 10, 50))
           /\ reviewsRejected
                <=> ~(Absent(q.minReviews) \/ AtLeast(q.minReviews, 10))
           /\ locationRejected
                <=> ((~hasCity /\ ~bothGiven) \/ ~latOk \/ ~lngOk)
           /\ r.valid <=> Len(r.errors) = 0
           /\ Len(r.errors) = One(radiusRejected) + One(ratingRejected)
                                + One(reviewsRejected)
                                + One(locationRejected) + One(typeRejected)
           /\ ~r.valid => r.params = <<>>
           /\ r.valid =>
                /\ r.params /= <<>>
                /\ Absent(q.radius) => r.params[1].radius = <<>>
                /\ Absent(q.minRating) => r.params[1].minRating = <<>>
                /\ Absent(q.minReviews) => r.params[1].minReviews = <<>>

\* C32 (amended): as above, except that latitude and longitude are checked
\* only when both are supplied: then the location is rejected iff either is
\* not a number in its range; a coordinate supplied without the other is
\* not checked, and the location is then rejected iff there is no
\* non-blank city.
C32_ValidatorsExactWhenBothGiven ==
    (svcCall /= <<>> /\ svcCall[1].fn = "validateQueryParameters"
        /\ svcRet /= <<>>)
    => LET q == svcCall[1].query
           r == svcRet[1]
           Absent(p) == p = Missing \/ p = Empty
           Within(p, lo, hi) ==
               p /= Missing /\ p[1] /= <<>> /\ lo <= p[1][1] /\ p[1][1] <= hi
           AtLeast(p, lo) == p /= Missing /\ p[1] /= <<>> /\ lo <= p[1][1]
           Says(errs) == \E i \in DOMAIN r.errors : r.errors[i] \in errs
           radiusRejected ==
               Says({"Radius must be a valid number",
                     "Radius must be between 1 and 50 km"})
           ratingRejected ==
               Says({"Minimum rating must be a valid number",
                     "Minimum rating must be between 1.0 and 5.0"})
           reviewsRejected ==
               Says({"Minimum reviews must be a valid number",
                     "Minimum reviews must be at least 1"})
           locationRejected ==
               Says({"Either city name or coordinates (latitude and longitude) must be provided",
                     "Latitude and longitude must be valid numbers",
                     "Latitude must be between -90 and 90",
                     "Longitude must be between -180 and 180"})
           typeRejected ==
               Says({"Type must be either \"restaurant\", \"cafe\", or \"both\""})
           hasCity == q.city /= <<>> /\ \E i \in DOMAIN q.city[1] :
                                            q.city[1][i] /= " "
           bothGiven == q.latitude /= Missing /\ q.longitude /= Missing
           One(b) == IF b THEN 1 ELSE 0
       IN  /\ radiusRejected
                <=> ~(Absent(q.radius) \/ Within(q.radius, 10, 500))
           /\ ratingRejected
                <=> ~(Absent(q.minRating) \/ Within(q.minRating, 10, 50))
           /\ reviewsRejected
                <=> ~(Absent(q.minReviews) \/ AtLeast(q.minReviews, 10))
           /\ locationRejected
                <=> IF bothGiven
                    THEN ~(/\ Within(q.latitude, 0 - 90000000, 90000000)
                           /\ Within(q.longitude, 0 - 180000000, 180000000))
                    ELSE ~hasCity
           /\ r.valid <=> Len(r.errors) = 0
           /\ Len(r.errors) = One(radiusRejected) + One(ratingRejected)
                                + One(reviewsRejected)
                                + One(locationRejected) + One(typeRejected)
           /\ ~r.valid => r.params = <<>>
           /\ r.valid =>
                /\ r.params /= <<>>
                /\ Absent(q.radius) => r.params[1].radius = <<>>
                /\ Absent(q.minRating) => r.params[1].minRating = <<>>
                /\ Absent(q.minReviews) => r.params[1].minReviews = <<>>

\* C32 witness: a query with a city and an out-of-range latitude but no
\* longitude, an empty minimum rating and a radius just over 50 km has been
\* validated: the radius is the only error and there are no params.
C32_Witness ==
    /\ svcCall /= <<>> /\ svcCall[1].fn = "validateQueryParameters"
    /\ svcRet /= <<>>
    /\ svcCall[1].query.city = << <<"T", "A">> >>
    /\ svcCall[1].query.latitude = Given(90000001)
    /\ svcCall[1].query.longitude = Missing
    /\ svcCall[1].query.minRating = Empty
    /\ svcCall[1].query.radius = Given(501)
    /\ svcRet[1].errors = << "Radius must be between 1 and 50 km" >>
    /\ svcRet[1].params = <<>>

\* C33: whenever the traversal stands at the loop test, the calls made plus
\* the tiles waiting in the queue number 1 + 4 x (tiles subdivided so far),
\* a subdivided tile being a queried tile whose children were enqueued; so
\* the tiles created so far number 1 modulo 4, and the queue is not empty
\* when the calls made reach MAX_API_CALLS.
C33_CallsPlusQueue ==
    pc \in {"loop", "done"}
    => LET created == queried \cup {queue[i] : i \in DOMAIN queue}
           subdivided == {t \in queried : Children(t)[1] \in created}
       IN  /\ apiCalls + Len(queue) = 1 + 4 * Cardinality(subdivided)
           /\ Cardinality(created) % 4 = 1
           /\ apiCalls = MAX_API_CALLS => queue /= <<>>

\* C33 witness: the loop test is reached with all MAX_API_CALLS calls made
\* after at least one subdivision, so that grandchildren have been queried.
C33_Witness ==
    /\ pc = "loop"
    /\ apiCalls = MAX_API_CALLS
    /\ \E t \in queried : t.depth >= 2
    /\ Len(queue) > 4

\* C34: every tile of a traversal (waiting, being queried or already
\* queried, with or without the call budget) has a depth between 0 and
\* MAX_DEPTH and the radius R0 / 2^depth, R0 being the radius the traversal
\* was called with; the tiles created number at most 1365 =
\* 1 + 4 + 16 + 64 + 256 + 1024, which bounds the queue.
C34_TilesBounded ==
    LET Shaped(t) == /\ 0 <= t.depth /\ t.depth <= MAX_DEPTH
                     /\ t.radius * 2^(t.depth) = args.radius
    IN  /\ \A i \in DOMAIN queue : Shaped(queue[i])
        /\ \A i \in DOMAIN uQueue : Shaped(uQueue[i])
        /\ \A i \in DOMAIN tile : Shaped(tile[i])
        /\ \A t \in queried : Shaped(t)
        /\ apiCalls + Len(queue) <= 1365
        /\ uCalls + Len(uQueue) <= 1365

\* C34 witness: without the budget a traversal has queried the whole tree
\* of 1365 tiles, down to depth MAX_DEPTH.
C34_Witness ==
    /\ pc = "done"
    /\ uQueue = <<>>
    /\ uCalls = 1365
    /\ \E i \in DOMAIN queue : queue[i].depth = MAX_DEPTH

\* C35: cleanup is transparent to admission.  lHist follows each client's
\* window as the middleware alone would keep it, never cleaned up; the
\* answer to every request (admitted or 429, with its headers) is the answer
\* for that window, every stored entry equals it, and an entry is missing
\* only when the window it stood for has expired.
C35_CleanupTransparent ==
    /\ lLast /= <<>> =>
          lLast[1] = Answer(lLast[1].ip,
                            [count |-> lHist[lLast[1].ip][1].total,
                             windowStart |-> lHist[lLast[1].ip][1].first],
                            lLast[1].at)
    /\ \A ip \in IPs :
          IF limiterStore[ip] /= <<>>
          THEN /\ lHist[ip] /= <<>>
               /\ limiterStore[ip][1] = [count |-> lHist[ip][1].total,
                                         windowStart |-> lHist[ip][1].first]
          ELSE lHist[ip] /= <<>> => lNow - lHist[ip][1].first > WINDOW_MS

\* C35 witness: a cleanup has removed the expired entry of "b" while "a",
\* whose window began a millisecond later and is still open, has just been
\* answered with the count of that window.
C35_Witness ==
    /\ lNow = WINDOW_MS + 1
    /\ limiterStore["b"] = <<>>
    /\ lHist["b"] = << [first |-> 0, total |-> 1] >>
    /\ lLast /= <<>>
    /\ lLast[1].ip = "a"
    /\ lLast[1].at = WINDOW_MS + 1
    /\ lLast[1].next
    /\ lLast[1].remaining = RATE_LIMIT - 3
    /\ limiterStore["a"] = << [count |-> 3, windowStart |-> 1] >>

====
